---- MODULE Spec2Model ----
(***************************************************************************)
(* WF-Guard dataset construction ("Data & Traffic Engineer").              *)
(*                                                                         *)
(* extract_features.py : compute_inter_packet_times,                       *)
(*                       extract_session_features, session_to_vector       *)
(* build_dataset.py    : load_parsed_session, build_features_and_metadata, *)
(*                       enforce_balance, split_no_leakage, main           *)
(*                                                                         *)
(* Numbers.  numpy works on floats; the model keeps every channel value as *)
(* an exact fraction [num, den] in lowest terms (den > 0), so that         *)
(* "divide by the maximum" is a real division and 0 stays exactly 0.  The  *)
(* rounding of the final astype(float32) is not modelled.  Ratios are kept *)
(* in percent (0.7 -> 70) and int(n * ratio) is (n * pct) \div 100.        *)
(***************************************************************************)
EXTENDS Integers, Sequences, FiniteSets, TLC

(***************************************************************************)
(* Bounds of the model                                                     *)
(***************************************************************************)
\* longest session drawn as an input of the feature extractor
MaxSessionLen == 3
\* longest free-form metadata list handed to the balancer and the splitter
MaxMetaRows == 3
\* largest corpus of distinct visits of one site
MaxVisits == 10
\* seeds are drawn from 0..MaxSeed
MaxSeed == 5
\* --max-packets and --min-packets of the modelled builds
ArgMaxPackets == 3
ArgMinPackets == 2

(***************************************************************************)
(* Program constants                                                       *)
(***************************************************************************)
DEFAULT_MAX_PACKETS == 2000
\* split ratios, in percent
TRAIN_RATIO == 70
VAL_RATIO == 15
TEST_RATIO == 15

(***************************************************************************)
(* Exact arithmetic                                                        *)
(***************************************************************************)
Abs(x) == IF x < 0 THEN 0 - x ELSE x

RECURSIVE Gcd(_, _)
Gcd(a, b) == IF b = 0 THEN a ELSE Gcd(b, a % b)

\* the fraction n/d (d > 0) in lowest terms
Frac(n, d) ==
    LET g == Gcd(Abs(n), d)
    IN  [num |-> n \div g, den |-> d \div g]

Zero == [num |-> 0, den |-> 1]

Zeros(k) == [j \in 1..k |-> 0]

\* np.max of a non-empty integer array
RECURSIVE NpMax(_)
NpMax(arr) ==
    IF Len(arr) = 1 THEN arr[1]
    ELSE LET m == NpMax(Tail(arr))
         IN  IF arr[1] > m THEN arr[1] ELSE m

\* arr / scale, element by element (scale > 0)
DivideBy(arr, scale) == [j \in 1..Len(arr) |-> Frac(arr[j], scale)]

\* an integer array seen as an array of fractions (no division applied)
AsFloat(arr) == [j \in 1..Len(arr) |-> Frac(arr[j], 1)]

(***************************************************************************)
(* extract_features.py                                                     *)
(***************************************************************************)
\* a parsed session (DataFrame): a sequence of packet records
Column(df, name) == [j \in 1..Len(df) |-> df[j][name]]

\* a variant that puts the 0 after the gaps instead of in front of them
compute_inter_packet_times_ZeroLast(ts) ==
    IF Len(ts) < 2 THEN Zeros(Len(ts))
    ELSE [j \in 1..(Len(ts) - 1) |-> ts[j + 1] - ts[j]] \o <<0>>

\* compute_inter_packet_times: gaps between consecutive timestamps, first 0
compute_inter_packet_times(ts) ==
    IF Len(ts) < 2 THEN Zeros(Len(ts))
    ELSE <<0>> \o [j \in 1..(Len(ts) - 1) |-> ts[j + 1] - ts[j]]

\* a variant that drops the padding branch (short sessions keep their length)
PadOrTruncate_NoPad(arr, n, max_packets) ==
    IF n > max_packets THEN SubSeq(arr, 1, max_packets) ELSE arr

\* a variant that keeps the last max_packets records instead of the first
PadOrTruncate_KeepLast(arr, n, max_packets) ==
    IF n > max_packets THEN SubSeq(arr, n - max_packets + 1, n)
    ELSE IF n < max_packets THEN arr \o Zeros(max_packets - n)
    ELSE arr

\* a variant that pads in front of the data
PadOrTruncate_PadFront(arr, n, max_packets) ==
    IF n > max_packets THEN SubSeq(arr, 1, max_packets)
    ELSE IF n < max_packets THEN Zeros(max_packets - n) \o arr
    ELSE arr

\* lines 52-61: truncate to the first max_packets, or pad the tail with 0;
\* n is the session length, the same for the three channels
PadOrTruncate(arr, n, max_packets) ==
    IF n > max_packets THEN SubSeq(arr, 1, max_packets)
    ELSE IF n < max_packets THEN arr \o Zeros(max_packets - n)
    ELSE arr

\* an optional scale: <<>> is None, <<s>> is the value s
None == <<>>

\* lines 63-66 / 68-71: the two normalisation branches of one channel.
\* Python evaluates np.max only when the first branch is not taken; np.max
\* of a zero-size array raises ValueError.
NormalizeRaises(arr, normalize, scale) ==
    /\ ~(normalize /\ scale # None /\ scale[1] > 0)
    /\ normalize
    /\ Len(arr) = 0

\* a variant that ignores the explicit scale
Normalize_ScaleIgnored(arr, normalize, scale) ==
    IF normalize /\ Len(arr) > 0 /\ NpMax(arr) > 0 THEN DivideBy(arr, NpMax(arr))
    ELSE AsFloat(arr)

Normalize(arr, normalize, scale) ==
    IF normalize /\ scale # None /\ scale[1] > 0 THEN DivideBy(arr, scale[1])
    ELSE IF normalize /\ Len(arr) > 0 /\ NpMax(arr) > 0 THEN DivideBy(arr, NpMax(arr))
    ELSE AsFloat(arr)

Raised(what) == [ok |-> FALSE, error |-> what]

\* a variant that normalises by the maximum of the whole session and only
\* then truncates or pads
extract_session_features_NormalizeFirst(df, max_packets, normalize_sizes, normalize_times, size_scale, time_scale) ==
    LET n       == Len(df)
        Cut(a)  == IF n > max_packets THEN SubSeq(a, 1, max_packets)
                   ELSE a \o [j \in 1..(max_packets - n) |-> Zero]
        sizes   == Column(df, "size")
        iat     == compute_inter_packet_times(Column(df, "timestamp"))
    IN  IF \/ NormalizeRaises(Cut(sizes), normalize_sizes, size_scale)
           \/ NormalizeRaises(Cut(iat), normalize_times, time_scale)
        THEN Raised("ValueError")
        ELSE [ok         |-> TRUE,
              sizes      |-> Cut(Normalize(sizes, normalize_sizes, size_scale)),
              directions |-> Cut(AsFloat(Column(df, "direction"))),
              iat        |-> Cut(Normalize(iat, normalize_times, time_scale))]

extract_session_features(df, max_packets, normalize_sizes, normalize_times, size_scale, time_scale) ==
    LET n          == Len(df)
        sizes      == PadOrTruncate(Column(df, "size"), n, max_packets)
        directions == PadOrTruncate(Column(df, "direction"), n, max_packets)
        iat        == PadOrTruncate(
                          compute_inter_packet_times(Column(df, "timestamp")),
                          n, max_packets)
    IN  IF \/ NormalizeRaises(sizes, normalize_sizes, size_scale)
           \/ NormalizeRaises(iat, normalize_times, time_scale)
        THEN Raised("ValueError")
        ELSE [ok         |-> TRUE,
              sizes      |-> Normalize(sizes, normalize_sizes, size_scale),
              directions |-> AsFloat(directions),
              iat        |-> Normalize(iat, normalize_times, time_scale)]

\* a variant that puts the direction channel first
session_to_vector_DirectionFirst(df, max_packets, normalize_sizes, normalize_times, include_iat) ==
    LET feats == extract_session_features(df, max_packets, normalize_sizes,
                                          normalize_times, None, None)
    IN  IF ~feats.ok THEN feats
        ELSE [ok  |-> TRUE,
              vec |-> feats.directions \o feats.sizes \o
                      (IF include_iat THEN feats.iat ELSE <<>>)]

\* session_to_vector: [sizes, directions, (iat)] concatenated
session_to_vector(df, max_packets, normalize_sizes, normalize_times, include_iat) ==
    LET feats == extract_session_features(df, max_packets, normalize_sizes,
                                          normalize_times, None, None)
    IN  IF ~feats.ok THEN feats
        ELSE [ok  |-> TRUE,
              vec |-> feats.sizes \o feats.directions \o
                      (IF include_iat THEN feats.iat ELSE <<>>)]

(***************************************************************************)
(* State that a pure function could read                                   *)
(***************************************************************************)
VARIABLE
    processRandom    \* the process-wide (legacy, unseeded) random state of numpy

(***************************************************************************)
(* build_dataset.py: enforce_balance                                       *)
(***************************************************************************)
Range(seq) == {seq[j] : j \in 1..Len(seq)}

Min(a, b) == IF a < b THEN a ELSE b

\* Python's seq[a:b] (0-based, half open, clipped to the sequence)
Slice(seq, a, b) == SubSeq(seq, Min(a, Len(seq)) + 1, Min(b, Len(seq)))

\* the balance group of a metadata row
GroupOf(row) == <<row.site_id, row.defense_on>>

\* group.index: the rows (1-based positions, ascending) of one group
GroupIndex(metadata, g) ==
    SelectSeq([j \in 1..Len(metadata) |-> j], LAMBDA j : GroupOf(metadata[j]) = g)

\* a variant that keeps as many rows as the largest group has
min_per_group_of_Max(metadata) ==
    LET sizes == {Len(GroupIndex(metadata, GroupOf(metadata[j]))) : j \in 1..Len(metadata)}
    IN  IF sizes = {} THEN 0 ELSE CHOOSE m \in sizes : \A x \in sizes : x <= m

\* lines 95-96: the size of the smallest group (0 when there is no group)
min_per_group_of(metadata) ==
    LET sizes == {Len(GroupIndex(metadata, GroupOf(metadata[j]))) : j \in 1..Len(metadata)}
    IN  IF sizes = {} THEN 0 ELSE CHOOSE m \in sizes : \A x \in sizes : m <= x

\* a variant without the guard of lines 93-94: grouping a DataFrame that was
\* built from an empty list and has no columns raises KeyError
enforce_balance_NoEmptyGuard(vectors, metadata) ==
    LET min_per_group == min_per_group_of(metadata)
        groups  == {GroupOf(metadata[j]) : j \in 1..Len(metadata)}
        taken   == UNION {Range(Slice(GroupIndex(metadata, g), 0, min_per_group)) : g \in groups}
        indices == SelectSeq([j \in 1..Len(metadata) |-> j], LAMBDA j : j \in taken)
    IN  IF Len(metadata) = 0 THEN Raised("KeyError")
        ELSE [vectors  |-> [j \in 1..Len(indices) |-> vectors[indices[j]]],
              metadata |-> [j \in 1..Len(indices) |-> metadata[indices[j]]]]

\* the place of a group key in sorted order, as groupby iterates:
\* by site_id, then defense off before defense on
KeyRank(g) == (IF g[1] = "site_01" THEN 0 ELSE 2) + (IF g[2] THEN 1 ELSE 0)

\* a variant without the sort of line 103: the rows come out group by group,
\* the groups in the order of their keys
enforce_balance_Unsorted(vectors, metadata) ==
    LET min_per_group == min_per_group_of(metadata)
        RECURSIVE Collect(_)
        Collect(groups) ==
            IF groups = {} THEN <<>>
            ELSE LET g == CHOOSE x \in groups : \A y \in groups : KeyRank(x) <= KeyRank(y)
                 IN  Slice(GroupIndex(metadata, g), 0, min_per_group)
                        \o Collect(groups \ {g})
        indices == Collect({GroupOf(metadata[j]) : j \in 1..Len(metadata)})
    IN  IF Len(metadata) = 0 \/ min_per_group = 0
        THEN [vectors |-> vectors, metadata |-> metadata]
        ELSE [vectors  |-> [j \in 1..Len(indices) |-> vectors[indices[j]]],
              metadata |-> [j \in 1..Len(indices) |-> metadata[indices[j]]]]

\* a variant that trims the metadata by group but keeps the first vectors
enforce_balance_VectorsPrefix(vectors, metadata) ==
    LET min_per_group == min_per_group_of(metadata)
        groups  == {GroupOf(metadata[j]) : j \in 1..Len(metadata)}
        taken   == UNION {Range(Slice(GroupIndex(metadata, g), 0, min_per_group)) : g \in groups}
        indices == SelectSeq([j \in 1..Len(metadata) |-> j], LAMBDA j : j \in taken)
    IN  IF Len(metadata) = 0 \/ min_per_group = 0
        THEN [vectors |-> vectors, metadata |-> metadata]
        ELSE [vectors  |-> [j \in 1..Len(indices) |-> vectors[j]],
              metadata |-> [j \in 1..Len(indices) |-> metadata[indices[j]]]]

\* lines 92-104; vectors and metadata are returned as [vectors, metadata]
enforce_balance(vectors, metadata) ==
    LET min_per_group == min_per_group_of(metadata)
        groups  == {GroupOf(metadata[j]) : j \in 1..Len(metadata)}
        taken   == UNION {Range(Slice(GroupIndex(metadata, g), 0, min_per_group)) : g \in groups}
        indices == SelectSeq([j \in 1..Len(metadata) |-> j], LAMBDA j : j \in taken)
    IN  IF Len(metadata) = 0 \/ min_per_group = 0
        THEN [vectors |-> vectors, metadata |-> metadata]
        ELSE [vectors  |-> [j \in 1..Len(indices) |-> vectors[indices[j]]],
              metadata |-> [j \in 1..Len(indices) |-> metadata[indices[j]]]]

(***************************************************************************)
(* build_dataset.py: split_no_leakage                                      *)
(***************************************************************************)
\* a variant that rounds n * ratio up
IntTimes_Ceil(n, ratio) == (n * ratio + 99) \div 100

\* int(n * ratio) for a ratio given in percent
IntTimes(n, ratio) == (n * ratio) \div 100

\* the visit identity of a metadata row
VisitOf(row) == <<row.site_id, row.visit_id>>

\* a variant that keeps the defense flag in the key
UniqueVisits_PerDefense(metadata) ==
    LET Key(r) == <<r.site_id, r.visit_id, r.defense_on>>
        firsts == SelectSeq([j \in 1..Len(metadata) |-> j],
                            LAMBDA j : \A k \in 1..(j - 1) : Key(metadata[k]) # Key(metadata[j]))
    IN  [j \in 1..Len(firsts) |-> VisitOf(metadata[firsts[j]])]

\* line 122: df[["site_id", "visit_id"]].drop_duplicates(): the distinct
\* visit identities, in the order of their first row
UniqueVisits(metadata) ==
    LET firsts == SelectSeq([j \in 1..Len(metadata) |-> j],
                            LAMBDA j : \A k \in 1..(j - 1) :
                                VisitOf(metadata[k]) # VisitOf(metadata[j]))
    IN  [j \in 1..Len(firsts) |-> VisitOf(metadata[firsts[j]])]

RECURSIVE Factorial(_)
Factorial(n) == IF n <= 1 THEN 1 ELSE n * Factorial(n - 1)

\* the k-th permutation of items (factorial number system), 0 <= k < Len(items)!
RECURSIVE KthPermutation(_, _)
KthPermutation(items, k) ==
    IF Len(items) = 0 THEN <<>>
    ELSE LET f    == Factorial(Len(items) - 1)
             pick == (k \div f) + 1
             rest == [j \in 1..(Len(items) - 1) |->
                        IF j < pick THEN items[j] ELSE items[j + 1]]
         IN  <<items[pick]>> \o KthPermutation(rest, k % f)

\* the process-wide random state differs from process to process
ProcessRandomStates == {0, 1}

\* a variant that draws from the process-wide random state, not from the seed
default_rng_ProcessWide(seed) == [state |-> processRandom]

\* line 118: np.random.default_rng(seed): a generator of its own, whose
\* state is a function of the seed alone
default_rng(seed) == [state |-> seed]

\* line 124: rng.permutation(n): a permutation of 0..n-1 that is a fixed
\* function of the generator's state and of n (the bit generator itself is
\* not modelled; the states 0..5 give the six permutations of three items)
rng_permutation(rng, n) ==
    KthPermutation([j \in 1..n |-> j - 1], (rng.state * 1299709) % Factorial(n))

\* a variant that cuts val at int(n*train_ratio + n*val_ratio)
n_val_of_SumThenFloor(n, train_ratio, val_ratio) ==
    IntTimes(n, train_ratio + val_ratio) - IntTimes(n, train_ratio)

\* line 126
n_val_of(n, train_ratio, val_ratio) == IntTimes(n, val_ratio)

\* a variant whose merge keeps only the first row of each visit
indices_for_visit_set_FirstRowOnly(metadata, visit_df) ==
    SelectSeq([j \in 1..Len(metadata) |-> j],
              LAMBDA j : /\ VisitOf(metadata[j]) \in Range(visit_df)
                         /\ \A k \in 1..(j - 1) : VisitOf(metadata[k]) # VisitOf(metadata[j]))

\* lines 132-134: the rows (1-based positions, ascending) whose visit
\* identity is in visit_df (an inner merge keeps the order of the left rows)
indices_for_visit_set(metadata, visit_df) ==
    SelectSeq([j \in 1..Len(metadata) |-> j],
              LAMBDA j : VisitOf(metadata[j]) \in Range(visit_df))

\* an empty metadata list gives a DataFrame without columns, and selecting
\* site_id/visit_id from it raises KeyError
split_no_leakage(vectors, metadata, train_ratio, val_ratio, test_ratio, seed) ==
    IF Len(metadata) = 0 THEN Raised("KeyError")
    ELSE
    LET rng     == default_rng(seed)
        visits  == UniqueVisits(metadata)
        n       == Len(visits)
        perm    == rng_permutation(rng, n)
        n_train == IntTimes(n, train_ratio)
        n_val   == n_val_of(n, train_ratio, val_ratio)
        Iloc(p) == [j \in 1..Len(p) |-> visits[p[j] + 1]]
        train_visits == Iloc(Slice(perm, 0, n_train))
        val_visits   == Iloc(Slice(perm, n_train, n_train + n_val))
        test_visits  == Iloc(Slice(perm, n_train + n_val, n))
    IN  [ok        |-> TRUE,
         train_idx |-> indices_for_visit_set(metadata, train_visits),
         val_idx   |-> indices_for_visit_set(metadata, val_visits),
         test_idx  |-> indices_for_visit_set(metadata, test_visits)]

(***************************************************************************)
(* build_dataset.py: load_parsed_session, build_features_and_metadata      *)
(***************************************************************************)
\* What os.path.isfile / pd.read_csv find for one session:
\*   [kind |-> "absent"]                   no such file
\*   [kind |-> "unreadable", error |-> e]  a file read_csv raises e on (no
\*                                         read permission, zero bytes, ...)
\*   [kind |-> "table", columns, rows]     a CSV with a header and rows
RequiredColumns == {"timestamp", "size", "direction"}

Returned(value) == [ok |-> TRUE, value |-> value]

\* the no-result of the loader, and a loaded table
NoSession == [none |-> TRUE]
Loaded(df) == [none |-> FALSE, df |-> df]

\* lines 39-47 (format csv); nothing catches what read_csv raises
load_parsed_session(file) ==
    IF file.kind = "absent" THEN Returned(NoSession)
    ELSE IF file.kind = "unreadable" THEN Raised(file.error)
    ELSE IF Len(file.rows) = 0 \/ ~(RequiredColumns \subseteq file.columns)
         THEN Returned(NoSession)
    ELSE Returned(Loaded(file.rows))

\* a variant of line 73 that also drops a session of exactly min_packets records
TooFewPackets_AtThreshold(df, min_packets) == Len(df) <= min_packets

\* line 73: len(df) < min_packets
TooFewPackets(df, min_packets) == Len(df) < min_packets

\* lines 66-84: one iteration of the loop over the manifest, on row number
\* pos (1-based): the state of vectors, metadata, dropped after it, or the
\* exception that leaves the loop
build_row(row, pos, vecs, meta, drop, max_packets, min_packets) ==
    LET got == load_parsed_session(row.file)
    IN  IF ~got.ok THEN got
        ELSE IF got.value.none \/ TooFewPackets(got.value.df, min_packets)
             THEN Returned([vectors |-> vecs, metadata |-> meta,
                            dropped |-> Append(drop, pos)])
        ELSE LET vec == session_to_vector(got.value.df, max_packets, TRUE, TRUE, TRUE)
             IN  IF ~vec.ok THEN vec
                 ELSE Returned([vectors  |-> Append(vecs, vec.vec),
                                metadata |-> Append(meta,
                                    [site_id      |-> row.site_id,
                                     visit_id     |-> row.visit_id,
                                     defense_on   |-> row.defense_on,
                                     packet_count |-> row.packet_count,
                                     total_bytes  |-> row.total_bytes]),
                                dropped  |-> drop])

(***************************************************************************)
(* State                                                                   *)
(***************************************************************************)
VARIABLES
    extractCall,     \* feature extractor: the session handed to it
    extractResult,   \* feature extractor: the arguments and value of the call
    featuresResult,  \* feature extractor: arguments and value of a call of extract_session_features
    splitCall,       \* splitter: the metadata and ratios handed to it
    splitRun1,       \* splitter: seed and value of the first run
    splitRun2,       \* splitter: seed and value of the run repeated in a new process
    balanceCall,     \* balancer: the vectors and metadata handed to it
    balanceResult,   \* balancer: the value of the call
    loadCall,        \* session loader: what is on disk for the session asked for
    loadResult,      \* session loader: the value of the call
    pc,              \* main: where the build is
    args,            \* main: the parsed command line
    parsed_dir,      \* main: the manifest and the session files under --parsed-dir
    i,               \* main: manifest rows the loop has gone through
    vectors,         \* main: feature vectors of the retained sessions
    metadata,        \* main: metadata of the retained sessions
    dropped,         \* main: manifest positions of the dropped sessions
    split,           \* main: train_idx, val_idx, test_idx
    written,         \* main: artifacts np.save / to_csv have completed, in order
    output_dir,      \* main: --output-dir on disk
    exit_status,     \* main: how the process ended
    error,           \* main: the exception that ended it, if any
    firstRun,        \* main: what an earlier, successful run of the same build left
    pcap_root,       \* parser: the PCAPs under --pcap-root, in the order they are discovered
    parseRun,        \* run_parsing: PCAPs gone through, manifest_rows, session files written
    parsedTree,      \* parser: the parsed directory on disk, manifest.csv and session files
    rebuildRun       \* parse_pcaps.main / rebuild_dataset.main: where the run is, how it ended

vars == <<extractCall, extractResult, featuresResult, splitCall, splitRun1, splitRun2, processRandom,
          balanceCall, balanceResult, loadCall, loadResult, pc, args, parsed_dir, i, vectors, metadata,
          dropped, split, written, output_dir, exit_status, error, firstRun,
          pcap_root, parseRun, parsedTree, rebuildRun>>

NotCalled == [called |-> FALSE]

extractVars == <<extractCall, extractResult, featuresResult>>
splitVars   == <<splitCall, splitRun1, splitRun2, processRandom>>
balanceVars == <<balanceCall, balanceResult>>
loadVars    == <<loadCall, loadResult>>
unitVars    == <<extractCall, extractResult, featuresResult, splitCall, splitRun1, splitRun2, processRandom,
                 balanceCall, balanceResult, loadCall, loadResult>>
rebuildVars == <<pcap_root, parseRun, parsedTree, rebuildRun>>
buildVars   == <<pc, args, parsed_dir, i, vectors, metadata, dropped, split, written,
                 output_dir, exit_status, error, firstRun>>

\* the parts of the state a specification does not use stay at these values
ExtractIdle ==
    /\ extractCall = [df |-> <<>>]
    /\ extractResult = NotCalled
    /\ featuresResult = NotCalled
SplitIdle ==
    /\ splitCall = [metadata |-> <<>>, train_ratio |-> TRAIN_RATIO,
                    val_ratio |-> VAL_RATIO, test_ratio |-> TEST_RATIO]
    /\ splitRun1 = NotCalled
    /\ splitRun2 = NotCalled
    /\ processRandom = 0

BalanceIdle ==
    /\ balanceCall = [vectors |-> <<>>, metadata |-> <<>>]
    /\ balanceResult = NotCalled

LoadIdle ==
    /\ loadCall = [file |-> [kind |-> "absent"]]
    /\ loadResult = NotCalled

RebuildIdle ==
    /\ pcap_root = <<>>
    /\ parseRun = [pos |-> 0, manifest_rows |-> <<>>, written |-> <<>>]
    /\ parsedTree = [manifest |-> [present |-> FALSE, rows |-> <<>>], files |-> {}]
    /\ rebuildRun = NotCalled

(***************************************************************************)
(* build_dataset.py: main                                                  *)
(***************************************************************************)
\* the seven artifacts, in the order main writes them (lines 194-209)
WriteOrder ==
    <<"X_train.npy", "X_val.npy", "X_test.npy",
      "metadata_train.csv", "metadata_val.csv", "metadata_test.csv",
      "overhead_per_session.csv">>

Artifacts == Range(WriteOrder)

NoFile == [present |-> FALSE]

\* a file whose write was cut short
PartialFile == [present |-> TRUE, complete |-> FALSE]

Select(list, idx) == [k \in 1..Len(idx) |-> list[idx[k]]]

\* a variant that writes the overhead table from the train rows alone
ArtifactContent_OverheadTrainOnly(name) ==
    [present  |-> TRUE,
     complete |-> TRUE,
     rows     |-> CASE name = "X_train.npy"        -> Select(vectors, split.train_idx)
                    [] name = "X_val.npy"          -> Select(vectors, split.val_idx)
                    [] name = "X_test.npy"         -> Select(vectors, split.test_idx)
                    [] name = "metadata_train.csv" -> Select(metadata, split.train_idx)
                    [] name = "metadata_val.csv"   -> Select(metadata, split.val_idx)
                    [] name = "metadata_test.csv"  -> Select(metadata, split.test_idx)
                    [] OTHER                       -> Select(metadata, split.train_idx)]

\* what lines 190-209 put into each artifact
ArtifactContent(name) ==
    [present  |-> TRUE,
     complete |-> TRUE,
     rows     |-> CASE name = "X_train.npy"        -> Select(vectors, split.train_idx)
                    [] name = "X_val.npy"          -> Select(vectors, split.val_idx)
                    [] name = "X_test.npy"         -> Select(vectors, split.test_idx)
                    [] name = "metadata_train.csv" -> Select(metadata, split.train_idx)
                    [] name = "metadata_val.csv"   -> Select(metadata, split.val_idx)
                    [] name = "metadata_test.csv"  -> Select(metadata, split.test_idx)
                    [] OTHER                       -> metadata]

NoSplit == [train_idx |-> <<>>, val_idx |-> <<>>, test_idx |-> <<>>]

ManifestRows == parsed_dir.manifest.rows

\* return 1 / return 0
Return(code) ==
    /\ pc' = "returned"
    /\ exit_status' = code
    /\ UNCHANGED error

\* an exception nothing catches: traceback, exit status 1
Raise(what) ==
    /\ pc' = "raised"
    /\ exit_status' = "exit 1"
    /\ error' = what

\* a variant that has created the output directory before it returns 1
EarlyReturn_AfterMakeDirs ==
    /\ Return("exit 1")
    /\ output_dir' = [output_dir EXCEPT !.exists = TRUE]

\* lines 159, 164, 178: return 1, before line 188 has touched the output directory
EarlyReturn ==
    /\ Return("exit 1")
    /\ UNCHANGED output_dir

\* lines 156-159
ManifestMissing ==
    /\ pc = "start"
    /\ ~parsed_dir.manifest.present
    /\ EarlyReturn
    /\ UNCHANGED <<args, parsed_dir, i, vectors, metadata, dropped, split, written>>
    /\ UNCHANGED <<firstRun, unitVars, rebuildVars>>

\* lines 161-164
ManifestEmpty ==
    /\ pc = "start"
    /\ parsed_dir.manifest.present
    /\ Len(ManifestRows) = 0
    /\ EarlyReturn
    /\ UNCHANGED <<args, parsed_dir, i, vectors, metadata, dropped, split, written>>
    /\ UNCHANGED <<firstRun, unitVars, rebuildVars>>

\* line 161, then into build_features_and_metadata (lines 61-63)
ReadManifest ==
    /\ pc = "start"
    /\ parsed_dir.manifest.present
    /\ Len(ManifestRows) > 0
    /\ pc' = "loop"
    /\ UNCHANGED <<args, parsed_dir, i, vectors, metadata, dropped, split, written,
                   output_dir, exit_status, error>>
    /\ UNCHANGED <<firstRun, unitVars, rebuildVars>>

\* a variant of the loop that stops after its first row
Exhausted_AfterFirstRow(pos, rows) == pos >= 1

\* line 65: manifest.iterrows() has no row left after pos rows
Exhausted(pos, rows) == pos = Len(rows)

\* lines 65-84: the next manifest row
ProcessRow ==
    /\ pc = "loop"
    /\ ~Exhausted(i, ManifestRows)
    /\ LET r == build_row(ManifestRows[i + 1], i + 1, vectors, metadata, dropped,
                          args.max_packets, args.min_packets)
       IN  IF r.ok
           THEN /\ vectors' = r.value.vectors
                /\ metadata' = r.value.metadata
                /\ dropped' = r.value.dropped
                /\ i' = i + 1
                /\ UNCHANGED <<pc, exit_status, error>>
           ELSE /\ Raise(r.error)
                /\ UNCHANGED <<i, vectors, metadata, dropped>>
    /\ UNCHANGED <<args, parsed_dir, split, written, output_dir>>
    /\ UNCHANGED <<firstRun, unitVars, rebuildVars>>

\* a variant of line 176 that never sees an empty list
NoVectors_Never(vecs) == FALSE

\* line 176: not vectors
NoVectors(vecs) == Len(vecs) = 0

\* lines 176-178
NoSessionsLeft ==
    /\ pc = "loop"
    /\ Exhausted(i, ManifestRows)
    /\ NoVectors(vectors)
    /\ EarlyReturn
    /\ UNCHANGED <<args, parsed_dir, i, vectors, metadata, dropped, split, written>>
    /\ UNCHANGED <<firstRun, unitVars, rebuildVars>>

\* lines 85 and 173-180: the loop is over and something was retained
LoopDone ==
    /\ pc = "loop"
    /\ Exhausted(i, ManifestRows)
    /\ ~NoVectors(vectors)
    /\ pc' = IF args.no_balance THEN "split" ELSE "balance"
    /\ UNCHANGED <<args, parsed_dir, i, vectors, metadata, dropped, split, written,
                   output_dir, exit_status, error>>
    /\ UNCHANGED <<firstRun, unitVars, rebuildVars>>

\* lines 180-182
Balance ==
    /\ pc = "balance"
    /\ LET b == enforce_balance(vectors, metadata)
       IN  /\ vectors' = b.vectors
           /\ metadata' = b.metadata
    /\ pc' = "split"
    /\ UNCHANGED <<args, parsed_dir, i, dropped, split, written, output_dir,
                   exit_status, error>>
    /\ UNCHANGED <<firstRun, unitVars, rebuildVars>>

\* lines 184-186: the default ratios, the seed of the command line
Split ==
    /\ pc = "split"
    /\ LET r == split_no_leakage(vectors, metadata, TRAIN_RATIO, VAL_RATIO, TEST_RATIO,
                                 args.seed)
       IN  IF r.ok
           THEN /\ split' = [train_idx |-> r.train_idx, val_idx |-> r.val_idx,
                             test_idx |-> r.test_idx]
                /\ pc' = "makedirs"
                /\ UNCHANGED <<exit_status, error>>
           ELSE /\ Raise(r.error)
                /\ UNCHANGED split
    /\ UNCHANGED <<args, parsed_dir, i, vectors, metadata, dropped, written, output_dir>>
    /\ UNCHANGED <<firstRun, unitVars, rebuildVars>>

\* line 188
MakeDirs ==
    /\ pc = "makedirs"
    /\ output_dir' = [output_dir EXCEPT !.exists = TRUE]
    /\ pc' = "stack"
    /\ UNCHANGED <<args, parsed_dir, i, vectors, metadata, dropped, split, written,
                   exit_status, error>>
    /\ UNCHANGED <<firstRun, unitVars, rebuildVars>>

\* lines 190-192: np.stack of an empty list raises ValueError
Stack ==
    /\ pc = "stack"
    /\ IF Len(split.train_idx) = 0 \/ Len(split.val_idx) = 0 \/ Len(split.test_idx) = 0
       THEN Raise("ValueError")
       ELSE pc' = "write" /\ UNCHANGED <<exit_status, error>>
    /\ UNCHANGED <<args, parsed_dir, i, vectors, metadata, dropped, split, written, output_dir>>
    /\ UNCHANGED <<firstRun, unitVars, rebuildVars>>

NextArtifact == WriteOrder[Len(written) + 1]

\* lines 194-209: the next np.save / to_csv completes
WriteArtifact ==
    /\ pc = "write"
    /\ Len(written) < Len(WriteOrder)
    /\ output_dir' = [output_dir EXCEPT !.files[NextArtifact] = ArtifactContent(NextArtifact)]
    /\ written' = Append(written, NextArtifact)
    /\ UNCHANGED <<pc, args, parsed_dir, i, vectors, metadata, dropped, split,
                   exit_status, error>>
    /\ UNCHANGED <<firstRun, unitVars, rebuildVars>>

\* lines 194-209: the next np.save / to_csv raises OSError (disk full, ...)
\* after it has opened its file
WriteFails ==
    /\ pc = "write"
    /\ Len(written) < Len(WriteOrder)
    /\ output_dir' = [output_dir EXCEPT !.files[NextArtifact] = PartialFile]
    /\ Raise("OSError")
    /\ UNCHANGED <<args, parsed_dir, i, vectors, metadata, dropped, split, written>>
    /\ UNCHANGED <<firstRun, unitVars, rebuildVars>>

\* lines 210-215
ReturnSuccess ==
    /\ pc = "write"
    /\ Len(written) = Len(WriteOrder)
    /\ Return("exit 0")
    /\ UNCHANGED <<args, parsed_dir, i, vectors, metadata, dropped, split, written, output_dir>>
    /\ UNCHANGED <<firstRun, unitVars, rebuildVars>>

\* the same command line is run again, in a new process, on the same parsed
\* directory and over the output directory the successful run has left
Rerun ==
    /\ pc = "returned"
    /\ exit_status = "exit 0"
    /\ ~firstRun.called
    /\ firstRun' = [called |-> TRUE, output_dir |-> output_dir, split |-> split]
    /\ processRandom' \in ProcessRandomStates \ {processRandom}
    /\ pc' = "start"
    /\ i' = 0
    /\ vectors' = <<>>
    /\ metadata' = <<>>
    /\ dropped' = <<>>
    /\ split' = NoSplit
    /\ written' = <<>>
    /\ exit_status' = "running"
    /\ error' = "none"
    /\ UNCHANGED <<args, parsed_dir, output_dir>>
    /\ UNCHANGED <<extractVars, splitCall, splitRun1, splitRun2, balanceVars, loadVars, rebuildVars>>

\* the command lines of the modelled builds (format csv)
ArgChoices ==
    {[max_packets |-> ArgMaxPackets, min_packets |-> ArgMinPackets,
      no_balance |-> nb, seed |-> sd] : nb \in BOOLEAN, sd \in {0, MaxSeed}}

\* the session of visit j, len records long: ascending timestamps, sizes and
\* gaps that differ from visit to visit, alternating directions
SessionFor(j, len) ==
    [k \in 1..len |-> [timestamp |-> k * (k + j), size |-> j + k,
                       direction |-> IF k % 2 = 1 THEN 1 ELSE -1]]

RECURSIVE SumSizes(_)
SumSizes(df) == IF Len(df) = 0 THEN 0 ELSE df[1].size + SumSizes(Tail(df))

TableFile(df) == [kind |-> "table", columns |-> RequiredColumns, rows |-> df]

ManifestRow(site_id, visit_id, defense_on, packet_count, total_bytes, file) ==
    [site_id |-> site_id, visit_id |-> visit_id, defense_on |-> defense_on,
     packet_count |-> packet_count, total_bytes |-> total_bytes, file |-> file]

\* row j of a well-formed corpus: site_01, visit j, defense off, a session of
\* min_packets or min_packets + 1 records, counted correctly by the manifest
GoodRow(j) ==
    LET df == SessionFor(j, ArgMinPackets + (j % 2))
    IN  ManifestRow("site_01", j, FALSE, Len(df), SumSizes(df), TableFile(df))

\* the session files a manifest row can point at
SessionFiles ==
    {[kind |-> "absent"],
     [kind |-> "unreadable", error |-> "PermissionError"],
     [kind |-> "unreadable", error |-> "EmptyDataError"],
     TableFile(<<>>),
     [kind |-> "table", columns |-> {"timestamp", "size"},
      rows |-> [k \in 1..ArgMinPackets |-> [timestamp |-> k, size |-> k]]],
     TableFile(SessionFor(0, ArgMinPackets - 1)),
     TableFile(SessionFor(0, ArgMinPackets)),
     TableFile(SessionFor(0, ArgMaxPackets + 1))}

\* one more row, of any kind: visit 1 again but with defense on, visit 1 of
\* another site, or one more visit of site_01; its manifest counts are what
\* the parser wrote, whatever the file holds now
OddRows ==
    {ManifestRow(v[1], v[2], v[3], 50, 5000, f) :
        v \in {<<"site_01", 1, TRUE>>, <<"site_02", 1, FALSE>>, <<"site_01", 0, FALSE>>},
        f \in SessionFiles}

InsertAt(seq, pos, x) == SubSeq(seq, 1, pos) \o <<x>> \o SubSeq(seq, pos + 1, Len(seq))

\* the manifests: up to MaxVisits good rows, alone or with one odd row anywhere
Manifests ==
    LET Good(n) == [j \in 1..n |-> GoodRow(j)]
    IN  {Good(n) : n \in 0..MaxVisits}
            \cup UNION {{InsertAt(Good(n), pos, x) : pos \in 0..n, x \in OddRows} :
                            n \in 0..MaxVisits}

ParsedDirs ==
    {[manifest |-> [present |-> FALSE, rows |-> <<>>]]}
        \cup {[manifest |-> [present |-> TRUE, rows |-> m]] : m \in Manifests}

BuildStart ==
    /\ pc = "start"
    /\ i = 0
    /\ vectors = <<>>
    /\ metadata = <<>>
    /\ dropped = <<>>
    /\ split = NoSplit
    /\ written = <<>>
    /\ output_dir = [exists |-> FALSE, files |-> [a \in Artifacts |-> NoFile]]
    /\ exit_status = "running"
    /\ error = "none"
    /\ firstRun = NotCalled

BuildIdle ==
    /\ BuildStart
    /\ args = [max_packets |-> ArgMaxPackets, min_packets |-> ArgMinPackets,
               no_balance |-> FALSE, seed |-> 0]
    /\ parsed_dir = [manifest |-> [present |-> FALSE, rows |-> <<>>]]

Init ==
    /\ BuildStart
    /\ args \in ArgChoices
    /\ parsed_dir \in ParsedDirs
    /\ ExtractIdle
    /\ SplitIdle
    /\ BalanceIdle
    /\ LoadIdle
    /\ RebuildIdle

Next ==
    \/ ManifestMissing
    \/ ManifestEmpty
    \/ ReadManifest
    \/ ProcessRow
    \/ NoSessionsLeft
    \/ LoopDone
    \/ Balance
    \/ Split
    \/ MakeDirs
    \/ Stack
    \/ WriteArtifact
    \/ WriteFails
    \/ ReturnSuccess
    \/ Rerun

Spec == Init /\ [][Next]_vars

(***************************************************************************)
(* The build over an output directory that may hold an older dataset       *)
(***************************************************************************)
\* what an older build has left in an artifact: one row of another corpus
OldContent(name) ==
    [present  |-> TRUE,
     complete |-> TRUE,
     rows     |-> IF name \in {"X_train.npy", "X_val.npy", "X_test.npy"}
                  THEN <<[j \in 1..(3 * ArgMaxPackets) |-> Zero]>>
                  ELSE <<[site_id |-> "site_00", visit_id |-> 0, defense_on |-> FALSE,
                          packet_count |-> 50, total_bytes |-> 5000]>>]

\* the output directory before the run: not there, there and empty, holding
\* an older dataset, or holding only the matrices of one
OutputDirsBefore ==
    {[exists |-> FALSE, files |-> [a \in Artifacts |-> NoFile]],
     [exists |-> TRUE, files |-> [a \in Artifacts |-> NoFile]],
     [exists |-> TRUE, files |-> [a \in Artifacts |-> OldContent(a)]],
     [exists |-> TRUE,
      files  |-> [a \in Artifacts |->
                    IF a \in {"X_train.npy", "X_val.npy", "X_test.npy"}
                    THEN OldContent(a) ELSE NoFile]]}

\* the parsed directories of these runs: no manifest, the manifests of at
\* most two rows, and two corpora large enough for a successful build
ParsedDirsOverOldOutput ==
    {[manifest |-> [present |-> FALSE, rows |-> <<>>]]}
        \cup {[manifest |-> [present |-> TRUE, rows |-> m]] :
                 m \in {x \in Manifests : Len(x) <= 2}}
        \cup {[manifest |-> [present |-> TRUE, rows |-> [j \in 1..n |-> GoodRow(j)]]] :
                 n \in {MaxVisits - 3, MaxVisits}}

InitOverOldOutput ==
    /\ pc = "start"
    /\ i = 0
    /\ vectors = <<>>
    /\ metadata = <<>>
    /\ dropped = <<>>
    /\ split = NoSplit
    /\ written = <<>>
    /\ output_dir \in OutputDirsBefore
    /\ exit_status = "running"
    /\ error = "none"
    /\ firstRun = NotCalled
    /\ args \in ArgChoices
    /\ parsed_dir \in ParsedDirsOverOldOutput
    /\ ExtractIdle
    /\ SplitIdle
    /\ BalanceIdle
    /\ LoadIdle
    /\ RebuildIdle

SpecOverOldOutput == InitOverOldOutput /\ [][Next]_vars

(***************************************************************************)
(* The feature extractor on its own: any session, any target length        *)
(***************************************************************************)
TimestampValues == {0, 1, 3}
SizeValues      == {0, 1, 2}
DirectionOf(t, s) == IF (t + s) % 2 = 0 THEN 1 ELSE -1

PacketRecords ==
    {[timestamp |-> t, size |-> s, direction |-> DirectionOf(t, s)] :
        t \in TimestampValues, s \in SizeValues}

Sessions == UNION {[1..k -> PacketRecords] : k \in 0..MaxSessionLen}

\* a long session: 100 records of size 100, all outgoing, with gaps that
\* keep growing (3, 5, 7, ...)
LongSession == [k \in 1..100 |-> [timestamp |-> k * k, size |-> 100, direction |-> 1]]

PacketLimits == {0, 1, 2, 3, 4, 10}

\* <<size_scale, time_scale>>: none, one of the two, a scale that is not positive
ScaleChoices == {<<None, None>>, <<<<2>>, None>>, <<None, <<3>>>>, <<<<0>>, <<2>>>>}

InitExtract ==
    /\ extractCall \in {[df |-> d] : d \in Sessions \cup {LongSession}}
    /\ extractResult = NotCalled
    /\ featuresResult = NotCalled
    /\ SplitIdle
    /\ BalanceIdle
    /\ LoadIdle
    /\ BuildIdle
    /\ RebuildIdle

CallSessionToVector ==
    /\ ~extractResult.called
    /\ ~featuresResult.called
    /\ \E max_packets \in PacketLimits, normalize \in BOOLEAN, include_iat \in BOOLEAN :
         extractResult' =
            [called      |-> TRUE,
             max_packets |-> max_packets,
             normalize   |-> normalize,
             include_iat |-> include_iat,
             out         |-> session_to_vector(extractCall.df, max_packets,
                                               normalize, normalize, include_iat)]
    /\ UNCHANGED <<extractCall, featuresResult, splitVars, balanceVars, loadVars, buildVars, rebuildVars>>

CallExtractSessionFeatures ==
    /\ ~extractResult.called
    /\ ~featuresResult.called
    /\ \E max_packets \in PacketLimits, normalize \in BOOLEAN, scales \in ScaleChoices :
         featuresResult' =
            [called      |-> TRUE,
             max_packets |-> max_packets,
             normalize   |-> normalize,
             size_scale  |-> scales[1],
             time_scale  |-> scales[2],
             out         |-> extract_session_features(extractCall.df, max_packets,
                                 normalize, normalize, scales[1], scales[2])]
    /\ UNCHANGED <<extractCall, extractResult, splitVars, balanceVars, loadVars, buildVars, rebuildVars>>

NextExtract == CallSessionToVector \/ CallExtractSessionFeatures

SpecExtract == InitExtract /\ [][NextExtract]_vars

(***************************************************************************)
(* The splitter on its own: any metadata list, ratios and seed; the run is *)
(* then repeated with the same arguments in another process                *)
(***************************************************************************)
MetaRow(site_id, visit_id, defense_on) ==
    [site_id |-> site_id, visit_id |-> visit_id, defense_on |-> defense_on,
     packet_count |-> 50, total_bytes |-> 5000]

\* visit 1 exists at two sites; each visit may come with and without defense
SomeVisits == {<<"site_01", 1>>, <<"site_01", 2>>, <<"site_02", 1>>}

SomeRows == {MetaRow(v[1], v[2], d) : v \in SomeVisits, d \in BOOLEAN}

\* n sessions of one site, defense off, n distinct visits
OneSiteCorpus(n) == [j \in 1..n |-> MetaRow("site_01", j, FALSE)]

MetadataLists ==
    UNION {[1..k -> SomeRows] : k \in 0..MaxMetaRows}
        \cup {OneSiteCorpus(n) : n \in 1..MaxVisits}

\* <<train, val, test>> in percent: the defaults, one more that sums to 1,
\* one that sums to less, one that sums to more
RatioChoices == {<<TRAIN_RATIO, VAL_RATIO, TEST_RATIO>>, <<50, 25, 0>>, <<50, 50, 0>>, <<80, 30, 15>>}

Seeds == 0..MaxSeed

InitSplit ==
    /\ splitCall \in {[metadata |-> m, train_ratio |-> r[1], val_ratio |-> r[2],
                        test_ratio |-> r[3]] : m \in MetadataLists, r \in RatioChoices}
    /\ splitRun1 = NotCalled
    /\ splitRun2 = NotCalled
    /\ processRandom = 0
    /\ ExtractIdle
    /\ BalanceIdle
    /\ LoadIdle
    /\ BuildIdle
    /\ RebuildIdle

RunSplit(seed) ==
    [called  |-> TRUE,
     seed    |-> seed,
     process |-> processRandom,
     out     |-> split_no_leakage(<<>>, splitCall.metadata, splitCall.train_ratio,
                                  splitCall.val_ratio, splitCall.test_ratio, seed)]

\* a first run, with any seed
CallSplit ==
    /\ ~splitRun1.called
    /\ \E seed \in Seeds : splitRun1' = RunSplit(seed)
    /\ UNCHANGED <<splitCall, splitRun2, processRandom, extractVars, balanceVars, loadVars, buildVars, rebuildVars>>

\* another process starts: its process-wide random state is whatever the
\* operating system's entropy made it
NewProcess ==
    /\ ~splitRun2.called
    /\ processRandom' \in ProcessRandomStates \ {processRandom}
    /\ UNCHANGED <<splitCall, splitRun1, splitRun2, extractVars, balanceVars, loadVars, buildVars, rebuildVars>>

\* the same call again: same metadata, ratios and seed
CallSplitAgain ==
    /\ splitRun1.called
    /\ ~splitRun2.called
    /\ splitRun2' = RunSplit(splitRun1.seed)
    /\ UNCHANGED <<splitCall, splitRun1, processRandom, extractVars, balanceVars, loadVars, buildVars, rebuildVars>>

NextSplit == CallSplit \/ NewProcess \/ CallSplitAgain

SpecSplit == InitSplit /\ [][NextSplit]_vars

(***************************************************************************)
(* The balancer on its own: any metadata list, one vector per row          *)
(***************************************************************************)
\* vector j stands for the vector extracted from the j-th session
VectorTokens(n) == [j \in 1..n |-> <<j>>]

InitBalance ==
    /\ balanceCall \in {[vectors |-> VectorTokens(Len(m)), metadata |-> m] : m \in MetadataLists}
    /\ balanceResult = NotCalled
    /\ ExtractIdle
    /\ SplitIdle
    /\ LoadIdle
    /\ BuildIdle
    /\ RebuildIdle

CallEnforceBalance ==
    /\ ~balanceResult.called
    /\ balanceResult' =
          [called |-> TRUE,
           out    |-> enforce_balance(balanceCall.vectors, balanceCall.metadata)]
    /\ UNCHANGED <<balanceCall, extractVars, splitVars, loadVars, buildVars, rebuildVars>>

NextBalance == CallEnforceBalance

SpecBalance == InitBalance /\ [][NextBalance]_vars

(***************************************************************************)
(* The session loader on its own: any file state of one session            *)
(***************************************************************************)
\* what read_csv can raise on a file that exists: no read permission, a file
\* of zero bytes, bytes that are not a CSV
ReadErrors == {"PermissionError", "EmptyDataError", "ParserError"}

\* a table that has only the columns cols of the records of df
WithColumns(df, cols) ==
    [kind    |-> "table",
     columns |-> cols,
     rows    |-> [k \in 1..Len(df) |-> [c \in cols |-> df[k][c]]]]

FileStates ==
    {[kind |-> "absent"]}
        \cup {[kind |-> "unreadable", error |-> e] : e \in ReadErrors}
        \cup {WithColumns(df, cols) : df \in Sessions, cols \in SUBSET RequiredColumns}

InitLoad ==
    /\ loadCall \in {[file |-> f] : f \in FileStates}
    /\ loadResult = NotCalled
    /\ ExtractIdle
    /\ SplitIdle
    /\ BalanceIdle
    /\ BuildIdle
    /\ RebuildIdle

CallLoadParsedSession ==
    /\ ~loadResult.called
    /\ loadResult' = [called |-> TRUE, out |-> load_parsed_session(loadCall.file)]
    /\ UNCHANGED <<loadCall, extractVars, splitVars, balanceVars, buildVars, rebuildVars>>

NextLoad == CallLoadParsedSession

SpecLoad == InitLoad /\ [][NextLoad]_vars

(***************************************************************************)
(* parse_pcaps.py: discover_pcaps, run_parsing, main                       *)
(***************************************************************************)
\* build_dataset.py line 25: the --min-packets a build gets when none is given
MIN_PACKETS == 10
\* most well-formed PCAPs under a root
MaxPcaps == 8

\* the stem of a PCAP's file name: "visit_<id>" (prefixed) or the bare "<id>"
Stem(prefixed, id) == [prefixed |-> prefixed, id |-> id]

\* line 141: a stem without the prefix gets it, so "<id>" and "visit_<id>"
\* both name visit_<id>; visit ids are written as the number <id>
visit_id_of(stem) == stem.id

\* What lies under a site directory with a name that matches *.pcap:
\*   [kind |-> "capture", packets |-> df]  a capture the parser reads df from
\*   [kind |-> "corrupt"]                  a file the parser raises on
\*   [kind |-> "directory"]                something that is not a file
Capture(df) == [kind |-> "capture", packets |-> df]
Pcap(site_id, stem, defense_on, content) ==
    [site_id |-> site_id, stem |-> stem, defense_on |-> defense_on, content |-> content]

\* lines 127-144: pcap_root lists the entries as the walk meets them
\* (defense_off before defense_on, site directories and file names sorted);
\* rel_path is the position of the entry in that walk
discover_pcaps(root) ==
    [k \in 1..Len(root) |->
        [site_id    |-> root[k].site_id,
         visit_id   |-> visit_id_of(root[k].stem),
         defense_on |-> root[k].defense_on,
         rel_path   |-> k]]

\* lines 116-120 and 100: the frame of the capture, or the parser's exception
parse_pcap(content) ==
    IF content.kind = "corrupt" THEN Raised("RuntimeError") ELSE Returned(content.packets)

\* lines 174-180: <output_dir>/<defense_dir>/<site_id>/<visit_id>.csv
OutPath(defense_on, site_id, visit_id) == <<defense_on, site_id, visit_id>>

\* to_csv on out_path: the file is created or replaced
WriteFile(files, path, df) ==
    {f \in files : f.path # path} \cup {[path |-> path, rows |-> df]}

\* lines 160-195: one iteration of the loop over the discovered PCAPs
ParsePcap ==
    /\ rebuildRun.called
    /\ rebuildRun.pc = "parsing"
    /\ parseRun.pos < Len(discover_pcaps(pcap_root))
    /\ LET d       == discover_pcaps(pcap_root)[parseRun.pos + 1]
           content == pcap_root[d.rel_path].content
           parsed  == parse_pcap(content)
           Skip    == /\ parseRun' = [parseRun EXCEPT !.pos = @ + 1]
                      /\ UNCHANGED parsedTree
       IN  IF content.kind = "directory" THEN Skip
           ELSE IF ~parsed.ok THEN Skip
           ELSE IF Len(parsed.value) = 0 THEN Skip
           ELSE LET df       == parsed.value
                    out_path == OutPath(d.defense_on, d.site_id, d.visit_id)
                IN  /\ parsedTree' = [parsedTree EXCEPT
                                        !.files = WriteFile(@, out_path, df)]
                    /\ parseRun' =
                         [pos           |-> parseRun.pos + 1,
                          manifest_rows |-> Append(parseRun.manifest_rows,
                              [site_id      |-> d.site_id,
                               visit_id     |-> d.visit_id,
                               defense_on   |-> d.defense_on,
                               pcap_path    |-> d.rel_path,
                               parsed_path  |-> out_path,
                               packet_count |-> Len(df),
                               total_bytes  |-> SumSizes(df)]),
                          written       |-> Append(parseRun.written,
                              [pcap_path |-> d.rel_path, parsed_path |-> out_path])]
    /\ UNCHANGED <<pcap_root, rebuildRun>>
    /\ UNCHANGED <<unitVars, buildVars>>

\* lines 197-202: the manifest is written when it has a row, and only then
FinishParsing ==
    /\ rebuildRun.called
    /\ rebuildRun.pc = "parsing"
    /\ parseRun.pos = Len(discover_pcaps(pcap_root))
    /\ parsedTree' =
         IF Len(parseRun.manifest_rows) # 0
         THEN [parsedTree EXCEPT
                 !.manifest = [present |-> TRUE, rows |-> parseRun.manifest_rows]]
         ELSE parsedTree
    /\ rebuildRun' = [rebuildRun EXCEPT !.pc = "parsed"]
    /\ UNCHANGED <<pcap_root, parseRun>>
    /\ UNCHANGED <<unitVars, buildVars>>

\* parse_pcaps.py lines 217-224: main returns 0 whatever run_parsing returned
ParsePcapsReturn ==
    /\ rebuildRun.called
    /\ rebuildRun.tool = "parse_pcaps"
    /\ rebuildRun.pc = "parsed"
    /\ rebuildRun' = [rebuildRun EXCEPT !.pc = "returned", !.exit_status = "exit 0"]
    /\ UNCHANGED <<pcap_root, parseRun, parsedTree>>
    /\ UNCHANGED <<unitVars, buildVars>>

(***************************************************************************)
(* rebuild_dataset.py: main                                                *)
(***************************************************************************)
\* build_dataset.py lines 33-47: the session file a manifest row leads the
\* build to, as load_parsed_session finds it under the parsed directory
FileAt(files, path) ==
    IF \E f \in files : f.path = path
    THEN TableFile((CHOOSE f \in files : f.path = path).rows)
    ELSE [kind |-> "absent"]

\* the manifest as the build reads it, each row with its session file
RowsOnDisk(tree) ==
    [k \in 1..Len(tree.manifest.rows) |->
        LET r == tree.manifest.rows[k]
        IN  ManifestRow(r.site_id, r.visit_id, r.defense_on, r.packet_count, r.total_bytes,
                        FileAt(tree.files, OutPath(r.defense_on, r.site_id, r.visit_id)))]

\* build_dataset.py lines 65-84 from row pos on: the metadata of the retained
\* sessions, or the exception that leaves the loop.  The vectors are left
\* out: with max_packets = DEFAULT_MAX_PACKETS session_to_vector does not raise
\* on a loaded session, and their values decide nothing below
RECURSIVE build_loop(_, _, _, _)
build_loop(rows, pos, meta, min_packets) ==
    IF pos > Len(rows) THEN Returned(meta)
    ELSE LET got == load_parsed_session(rows[pos].file)
         IN  IF ~got.ok THEN got
             ELSE IF got.value.none \/ TooFewPackets(got.value.df, min_packets)
                  THEN build_loop(rows, pos + 1, meta, min_packets)
             ELSE build_loop(rows, pos + 1,
                             Append(meta, [site_id      |-> rows[pos].site_id,
                                           visit_id     |-> rows[pos].visit_id,
                                           defense_on   |-> rows[pos].defense_on,
                                           packet_count |-> rows[pos].packet_count,
                                           total_bytes  |-> rows[pos].total_bytes]),
                             min_packets)

BuildEnded(code, what, wrote) == [code |-> code, error |-> what, wrote |-> wrote]

\* build_dataset.py lines 142-215 as one call, with the command line
\* rebuild_dataset gives it: the exit code, the exception that ended the
\* build if one did, and whether the dataset was written
build_main(tree, no_balance, seed) ==
    IF ~tree.manifest.present THEN BuildEnded("exit 1", "none", FALSE)
    ELSE IF Len(tree.manifest.rows) = 0 THEN BuildEnded("exit 1", "none", FALSE)
    ELSE LET looped == build_loop(RowsOnDisk(tree), 1, <<>>, MIN_PACKETS)
         IN  IF ~looped.ok THEN BuildEnded("exit 1", looped.error, FALSE)
             ELSE IF NoVectors(looped.value) THEN BuildEnded("exit 1", "none", FALSE)
             ELSE LET meta == IF no_balance THEN looped.value
                              ELSE enforce_balance(VectorTokens(Len(looped.value)),
                                                   looped.value).metadata
                      s    == split_no_leakage(VectorTokens(Len(meta)), meta,
                                               TRAIN_RATIO, VAL_RATIO, TEST_RATIO, seed)
                  IN  IF ~s.ok THEN BuildEnded("exit 1", s.error, FALSE)
                      ELSE IF Len(s.train_idx) = 0 \/ Len(s.val_idx) = 0
                                \/ Len(s.test_idx) = 0
                           THEN BuildEnded("exit 1", "ValueError", FALSE)
                      ELSE BuildEnded("exit 0", "none", TRUE)

\* rebuild_dataset.py lines 48-51: no manifest.csv in the parsed directory
RebuildNoManifest ==
    /\ rebuildRun.called
    /\ rebuildRun.tool = "rebuild_dataset"
    /\ rebuildRun.pc = "parsed"
    /\ ~parsedTree.manifest.present
    /\ rebuildRun' = [rebuildRun EXCEPT !.pc = "returned", !.exit_status = "exit 1"]
    /\ UNCHANGED <<pcap_root, parseRun, parsedTree>>
    /\ UNCHANGED <<unitVars, buildVars>>

\* rebuild_dataset.py lines 53-73: the build runs on the parsed directory; its
\* code is returned, and an exception of the build ends the run as well
RebuildBuild ==
    /\ rebuildRun.called
    /\ rebuildRun.tool = "rebuild_dataset"
    /\ rebuildRun.pc = "parsed"
    /\ parsedTree.manifest.present
    /\ LET b == build_main(parsedTree, rebuildRun.no_balance, rebuildRun.seed)
       IN  rebuildRun' =
             [rebuildRun EXCEPT
                !.pc = IF b.error = "none" THEN "returned" ELSE "raised",
                !.exit_status = b.code,
                !.error = b.error,
                !.build = [called |-> TRUE, code |-> b.code, wrote |-> b.wrote,
                           manifest |-> parsedTree.manifest]]
    /\ UNCHANGED <<pcap_root, parseRun, parsedTree>>
    /\ UNCHANGED <<unitVars, buildVars>>

\* PCAP visit_<j>.pcap of site_01, defense off: a capture of MIN_PACKETS or
\* MIN_PACKETS + 1 packets
GoodPcap(j) ==
    Pcap("site_01", Stem(TRUE, j), FALSE, Capture(SessionFor(j, MIN_PACKETS + (j % 2))))

GoodPcaps(n) == [j \in 1..n |-> GoodPcap(j)]

\* what a PCAP can be instead: a file the parser raises on, a capture without
\* a packet, a directory named *.pcap, a capture too short for the build
OddContents ==
    {[kind |-> "corrupt"], Capture(<<>>), [kind |-> "directory"],
     Capture(SessionFor(0, MIN_PACKETS - 1))}

\* the roots: up to MaxPcaps well-formed PCAPs of one site; the same with one
\* of them odd; with one more PCAP named by a bare stem, which sorts before
\* the visit_ names; with one more under defense_on, which is walked last;
\* and one or two PCAPs that are all corrupt or all empty
PcapRoots ==
    {GoodPcaps(n) : n \in 0..MaxPcaps}
        \cup UNION {{[GoodPcaps(n) EXCEPT ![j].content = c] : j \in 1..n, c \in OddContents} :
                        n \in 1..MaxPcaps}
        \cup UNION {{<<Pcap("site_01", Stem(FALSE, j), FALSE,
                            Capture(SessionFor(0, MIN_PACKETS)))>> \o GoodPcaps(n) :
                        j \in 1..(n + 1)} : n \in 0..MaxPcaps}
        \cup {GoodPcaps(n) \o <<Pcap("site_01", Stem(TRUE, 1), TRUE,
                                     Capture(SessionFor(0, MIN_PACKETS)))>> :
                 n \in 0..MaxPcaps}
        \cup {[j \in 1..n |-> [GoodPcap(j) EXCEPT !.content = c]] :
                 n \in 1..2, c \in {[kind |-> "corrupt"], Capture(<<>>)}}

\* a parsed directory no run has used
FreshTree == [manifest |-> [present |-> FALSE, rows |-> <<>>], files |-> {}]

\* the parsed directory an earlier run over n well-formed PCAPs has left
RECURSIVE TreeAfter(_, _)
TreeAfter(root, pos) ==
    IF pos = 0 THEN FreshTree
    ELSE LET before == TreeAfter(root, pos - 1)
             d      == discover_pcaps(root)[pos]
             df     == root[pos].content.packets
             path   == OutPath(d.defense_on, d.site_id, d.visit_id)
         IN  [manifest |->
                 [present |-> TRUE,
                  rows    |-> Append(before.manifest.rows,
                                [site_id |-> d.site_id, visit_id |-> d.visit_id,
                                 defense_on |-> d.defense_on, pcap_path |-> d.rel_path,
                                 parsed_path |-> path, packet_count |-> Len(df),
                                 total_bytes |-> SumSizes(df)])],
              files |-> WriteFile(before.files, path, df)]

UsedTree(n) == TreeAfter(GoodPcaps(n), n)

ParsedTreesBefore == {FreshTree, UsedTree(MaxPcaps - 1)}

\* the two command lines: parse_pcaps, and rebuild_dataset with its
\* --no-balance and --seed
Runs ==
    {[called |-> TRUE, tool |-> "parse_pcaps", pc |-> "parsing", no_balance |-> FALSE,
      seed |-> 0, exit_status |-> "running", error |-> "none", build |-> NotCalled]}
        \cup {[called |-> TRUE, tool |-> "rebuild_dataset", pc |-> "parsing",
               no_balance |-> nb, seed |-> sd, exit_status |-> "running",
               error |-> "none", build |-> NotCalled] :
                 nb \in BOOLEAN, sd \in {0, MaxSeed}}

InitRebuild ==
    /\ pcap_root \in PcapRoots
    /\ parseRun = [pos |-> 0, manifest_rows |-> <<>>, written |-> <<>>]
    /\ parsedTree \in ParsedTreesBefore
    /\ rebuildRun \in Runs
    /\ ExtractIdle
    /\ SplitIdle
    /\ BalanceIdle
    /\ LoadIdle
    /\ BuildIdle

NextRebuild ==
    \/ ParsePcap
    \/ FinishParsing
    \/ ParsePcapsReturn
    \/ RebuildNoManifest
    \/ RebuildBuild

SpecRebuild == InitRebuild /\ [][NextRebuild]_vars

(***************************************************************************)
(* Properties of the feature extractor (SpecExtract)                       *)
(***************************************************************************)
ExtractedLen == Len(extractCall.df)

\* channel c (0 = size, 1 = direction, 2 = inter-arrival) of a flat vector
Channel(vec, c, max_packets) == SubSeq(vec, c * max_packets + 1, (c + 1) * max_packets)

Channels(include_iat) == IF include_iat THEN 3 ELSE 2

\* C8: for every valid (non-empty) session and every max_packets >= 1,
\* session_to_vector returns a vector of length 3 * max_packets with the
\* inter-arrival channel and 2 * max_packets without it, whatever the length
\* of the session.
C8_FixedVectorLength ==
    (extractResult.called /\ ExtractedLen >= 1 /\ extractResult.max_packets >= 1)
        => /\ extractResult.out.ok
           /\ Len(extractResult.out.vec) =
                  Channels(extractResult.include_iat) * extractResult.max_packets

\* a session longer than max_packets was flattened with the inter-arrival channel
C8_Witness ==
    /\ extractResult.called
    /\ extractResult.include_iat
    /\ extractResult.max_packets = 2
    /\ ExtractedLen = 3
    /\ extractResult.out.ok
    /\ Len(extractResult.out.vec) = 6

\* C9: a session with more than max_packets records gives the vector of its
\* first max_packets records alone: the later records change nothing, the
\* values used for self-normalisation included.
C9_TruncationUsesPrefixOnly ==
    (extractResult.called /\ ExtractedLen > extractResult.max_packets)
        => extractResult.out =
              session_to_vector(SubSeq(extractCall.df, 1, extractResult.max_packets),
                                extractResult.max_packets, extractResult.normalize,
                                extractResult.normalize, extractResult.include_iat)

\* a truncated session whose dropped third record is larger than every kept one
C9_Witness ==
    /\ extractResult.called
    /\ extractResult.normalize
    /\ extractResult.max_packets = 2
    /\ ExtractedLen = 3
    /\ extractCall.df[1].size = 1
    /\ extractCall.df[2].size = 0
    /\ extractCall.df[3].size = 2
    /\ extractResult.out.ok
    /\ extractResult.out.vec[1] = Frac(1, 1)

\* the largest element of a non-empty set of integers
SetMax(S) == CHOOSE m \in S : \A x \in S : x <= m

\* the divisor self-normalisation applies to the values of a session
ScaleOf(values, normalize) ==
    IF normalize /\ values # {} /\ SetMax(values) > 0 THEN SetMax(values) ELSE 1

SessionSizes == {extractCall.df[j].size : j \in 1..ExtractedLen}

SessionGap(j) ==
    IF j = 1 THEN 0 ELSE extractCall.df[j].timestamp - extractCall.df[j - 1].timestamp

SessionGaps == {SessionGap(j) : j \in 1..ExtractedLen}

\* C10: for a session of n < max_packets records, positions n..max_packets-1
\* of every channel are exactly 0, also after normalisation, and positions
\* 0..n-1 hold the session's values in their original order (each divided by
\* the channel's one scale): padding sits at the tail and is never interleaved.
C10_PaddingAtTail ==
    (extractResult.called /\ extractResult.out.ok
        /\ ExtractedLen < extractResult.max_packets)
        => LET N    == extractResult.max_packets
               vec  == extractResult.out.vec
               norm == extractResult.normalize
           IN  /\ \A c \in 0..(Channels(extractResult.include_iat) - 1) :
                     \A j \in (ExtractedLen + 1)..N : Channel(vec, c, N)[j] = Zero
               /\ \A j \in 1..ExtractedLen :
                     /\ Channel(vec, 0, N)[j] =
                            Frac(extractCall.df[j].size, ScaleOf(SessionSizes, norm))
                     /\ Channel(vec, 1, N)[j] = Frac(extractCall.df[j].direction, 1)
                     /\ extractResult.include_iat =>
                            Channel(vec, 2, N)[j] =
                               Frac(SessionGap(j), ScaleOf(SessionGaps, norm))

\* a two-record session padded to four, normalised: 1/2, 1, 0, 0 in the size channel
C10_Witness ==
    /\ extractResult.called
    /\ extractResult.normalize
    /\ extractResult.include_iat
    /\ extractResult.max_packets = 4
    /\ ExtractedLen = 2
    /\ extractResult.out.ok
    /\ Channel(extractResult.out.vec, 0, 4) = <<Frac(1, 2), Frac(1, 1), Zero, Zero>>
    /\ Channel(extractResult.out.vec, 2, 4) = <<Zero, Frac(1, 1), Zero, Zero>>

\* C18: for any valid (non-empty) session, extraction with max_packets = 0
\* completes without error and gives zero-length channels: a vector of
\* length 0.
C18_ZeroTargetLength ==
    (extractResult.called /\ ExtractedLen >= 1 /\ extractResult.max_packets = 0)
        => /\ extractResult.out.ok
           /\ Len(extractResult.out.vec) = 0

\* element j (1-based) of the size and inter-arrival channels before
\* normalisation: the session's value, or the padding 0 past its end
RawSize(j) == IF j <= ExtractedLen THEN extractCall.df[j].size ELSE 0

RawGap(j) == IF j <= ExtractedLen THEN SessionGap(j) ELSE 0

\* what a channel is divided by: the explicit scale when it is positive, else
\* the channel's maximum when that is positive, else nothing (1)
DivisorOf(values, normalize, scale) ==
    IF ~normalize THEN 1
    ELSE IF scale # None /\ scale[1] > 0 THEN scale[1]
    ELSE IF SetMax(values) > 0 THEN SetMax(values)
    ELSE 1

\* C21: for max_packets >= 1 and normalisation on, every element of the size
\* and of the inter-arrival channel is divided by the explicit scale if one
\* > 0 is supplied, otherwise by the maximum of that channel after
\* pad/truncate when that maximum is > 0, and is left unchanged when the
\* maximum is <= 0 (an all-zero channel stays all zero); with normalisation
\* off the channel is left unchanged.
C21_NormalizationRule ==
    (featuresResult.called /\ featuresResult.max_packets >= 1)
        => LET N    == featuresResult.max_packets
               out  == featuresResult.out
               norm == featuresResult.normalize
               ds   == DivisorOf({RawSize(j) : j \in 1..N}, norm, featuresResult.size_scale)
               dt   == DivisorOf({RawGap(j) : j \in 1..N}, norm, featuresResult.time_scale)
           IN  /\ out.ok
               /\ Len(out.sizes) = N
               /\ Len(out.iat) = N
               /\ \A j \in 1..N :
                     /\ out.sizes[j] = Frac(RawSize(j), ds)
                     /\ out.iat[j] = Frac(RawGap(j), dt)
               /\ (\A j \in 1..N : RawSize(j) = 0) => (\A j \in 1..N : out.sizes[j] = Zero)
               /\ (\A j \in 1..N : RawGap(j) = 0) => (\A j \in 1..N : out.iat[j] = Zero)

\* sizes 1, 2 with a size scale of 0 were divided by their maximum; the gaps
\* 0, 1 were divided by the time scale 2; the padding stayed 0
C21_Witness ==
    /\ featuresResult.called
    /\ featuresResult.normalize
    /\ featuresResult.max_packets = 3
    /\ featuresResult.size_scale = <<0>>
    /\ featuresResult.time_scale = <<2>>
    /\ featuresResult.out.ok
    /\ featuresResult.out.sizes = <<Frac(1, 2), Frac(1, 1), Zero>>
    /\ featuresResult.out.iat = <<Zero, Frac(1, 2), Zero>>

\* C22: before normalisation (normalisation off) the inter-arrival channel
\* has element 0 equal to 0 and element i, 1 <= i < min(n, max_packets),
\* equal to timestamp[i] - timestamp[i-1]; a one-record session gives [0];
\* like the size channel it is cut to the first max_packets elements or
\* padded with 0 up to max_packets.
C22_InterArrivalChannel ==
    (featuresResult.called /\ ~featuresResult.normalize)
        => LET N   == featuresResult.max_packets
               n   == ExtractedLen
               df  == extractCall.df
               out == featuresResult.out
           IN  /\ out.ok
               /\ Len(out.iat) = N
               /\ Len(out.sizes) = N
               /\ \A j \in 1..N :
                     /\ (j = 1 /\ j <= n) => out.iat[j] = Zero
                     /\ (1 < j /\ j <= n) =>
                            out.iat[j] = Frac(df[j].timestamp - df[j - 1].timestamp, 1)
                     /\ j > n => (out.iat[j] = Zero /\ out.sizes[j] = Zero)
                     /\ j <= n => out.sizes[j] = Frac(df[j].size, 1)

\* three records at times 0, 1, 3 cut to two: the gaps 0, 1
C22_Witness ==
    /\ featuresResult.called
    /\ ~featuresResult.normalize
    /\ featuresResult.max_packets = 2
    /\ ExtractedLen = 3
    /\ extractCall.df[1].timestamp = 0
    /\ extractCall.df[2].timestamp = 1
    /\ extractCall.df[3].timestamp = 3
    /\ featuresResult.out.iat = <<Zero, Frac(1, 1)>>

RawDirection(j) == IF j <= ExtractedLen THEN extractCall.df[j].direction ELSE 0

\* C23: with N = max_packets >= 1, positions [0, N) of the vector hold the
\* size channel, [N, 2N) the direction channel and, when the inter-arrival
\* channel is enabled, [2N, 3N) the inter-arrival channel, and nothing
\* follows; the direction channel is the session's directions (0 in the
\* padding) without any scaling.
C23_ChannelLayout ==
    (extractResult.called /\ extractResult.max_packets >= 1)
        => LET N    == extractResult.max_packets
               out  == extractResult.out
               norm == extractResult.normalize
               ds   == DivisorOf({RawSize(j) : j \in 1..N}, norm, None)
               dt   == DivisorOf({RawGap(j) : j \in 1..N}, norm, None)
           IN  /\ out.ok
               /\ Len(out.vec) = (IF extractResult.include_iat THEN 3 ELSE 2) * N
               /\ \A j \in 1..N :
                     /\ out.vec[j] = Frac(RawSize(j), ds)
                     /\ out.vec[N + j] = Frac(RawDirection(j), 1)
                     /\ extractResult.include_iat => out.vec[2 * N + j] = Frac(RawGap(j), dt)

\* sizes 1, 2, both incoming, at times 0 and 1, flattened with N = 2
C23_Witness ==
    /\ extractResult.called
    /\ extractResult.normalize
    /\ extractResult.include_iat
    /\ extractResult.max_packets = 2
    /\ ExtractedLen = 2
    /\ extractResult.out.ok
    /\ extractResult.out.vec =
          <<Frac(1, 2), Frac(1, 1), Frac(-1, 1), Frac(-1, 1), Zero, Frac(1, 1)>>

\* C24 (Scenario D): max_packets = 10 and a 100-record session of constant
\* size 100 and direction +1, self-normalised: the size channel is all 1,
\* the direction channel is all +1, element 0 of the inter-arrival channel is
\* 0 and every other element is its raw gap divided by the largest gap among
\* the first 10 records, so that the largest element is 1.
C24_ScenarioD ==
    (featuresResult.called /\ extractCall.df = LongSession
        /\ featuresResult.max_packets = 10 /\ featuresResult.normalize
        /\ featuresResult.size_scale = None /\ featuresResult.time_scale = None)
        => LET out     == featuresResult.out
               df      == extractCall.df
               Gap(j)  == df[j].timestamp - df[j - 1].timestamp
               largest == SetMax({Gap(j) : j \in 2..10})
           IN  /\ out.ok
               /\ out.sizes = [j \in 1..10 |-> Frac(1, 1)]
               /\ out.directions = [j \in 1..10 |-> Frac(1, 1)]
               /\ Len(out.iat) = 10
               /\ out.iat[1] = Zero
               /\ \A j \in 2..10 : out.iat[j] = Frac(Gap(j), largest)
               /\ \E j \in 2..10 : out.iat[j] = Frac(1, 1)
               /\ \A j \in 1..10 : out.iat[j].num <= out.iat[j].den

\* the scenario was run: the last kept gap, 19, is the largest of the first
\* ten although later gaps of the session are larger
C24_Witness ==
    /\ featuresResult.called
    /\ extractCall.df = LongSession
    /\ featuresResult.max_packets = 10
    /\ featuresResult.normalize
    /\ featuresResult.size_scale = None
    /\ featuresResult.time_scale = None
    /\ featuresResult.out.ok
    /\ featuresResult.out.iat[10] = Frac(1, 1)
    /\ featuresResult.out.iat[2] = Frac(3, 19)
    /\ featuresResult.out.sizes[10] = Frac(1, 1)

(***************************************************************************)
(* Properties of the splitter (SpecSplit)                                  *)
(***************************************************************************)
DefaultRatios ==
    /\ splitCall.train_ratio = TRAIN_RATIO
    /\ splitCall.val_ratio = VAL_RATIO
    /\ splitCall.test_ratio = TEST_RATIO

\* the visit identities that have a row in an index list
VisitsIn(idx) == {VisitOf(splitCall.metadata[r]) : r \in Range(idx)}

\* every row of a visit that has a row in idx is itself in idx
WholeVisits(idx) ==
    \A r \in Range(idx), j \in 1..Len(splitCall.metadata) :
        VisitOf(splitCall.metadata[j]) = VisitOf(splitCall.metadata[r]) => j \in Range(idx)

\* C1: with the default ratios, for any metadata list and seed, all rows that
\* share a visit identity (site_id, visit_id) are in the same split: no visit
\* identity has rows in more than one of train_idx, val_idx, test_idx.
C1_NoVisitLeakage ==
    (splitRun1.called /\ splitRun1.out.ok /\ DefaultRatios)
        => LET out == splitRun1.out
           IN  /\ VisitsIn(out.train_idx) \cap VisitsIn(out.val_idx) = {}
               /\ VisitsIn(out.train_idx) \cap VisitsIn(out.test_idx) = {}
               /\ VisitsIn(out.val_idx) \cap VisitsIn(out.test_idx) = {}
               /\ WholeVisits(out.train_idx)
               /\ WholeVisits(out.val_idx)
               /\ WholeVisits(out.test_idx)

\* a visit recorded with and without defense went to train as a whole, while
\* another visit went to test
C1_Witness ==
    /\ splitRun1.called
    /\ DefaultRatios
    /\ Len(splitCall.metadata) = 3
    /\ VisitOf(splitCall.metadata[1]) = VisitOf(splitCall.metadata[3])
    /\ splitCall.metadata[1].defense_on # splitCall.metadata[3].defense_on
    /\ VisitOf(splitCall.metadata[2]) # VisitOf(splitCall.metadata[1])
    /\ splitRun1.out.ok
    /\ splitRun1.out.train_idx = <<1, 3>>
    /\ splitRun1.out.test_idx = <<2>>

NumVisits == Len(UniqueVisits(splitCall.metadata))

RatiosWithinOne == splitCall.train_ratio + splitCall.val_ratio <= 100

\* the visits at positions a+1..b of the permutation run 1 drew
PermutedVisits(a, b) ==
    LET visits == UniqueVisits(splitCall.metadata)
        perm   == rng_permutation(default_rng(splitRun1.seed), NumVisits)
    IN  {visits[perm[j] + 1] : j \in (a + 1)..b}

\* C6 as claimed (here for the default ratios): the permutation is cut at
\* floor(n*train_ratio) and at floor(n*train_ratio + n*val_ratio): val gets
\* the visits between the two cuts and test the rest.
C6_CutAtFloorOfSum ==
    (splitRun1.called /\ splitRun1.out.ok /\ DefaultRatios)
        => LET out  == splitRun1.out
               cut1 == IntTimes(NumVisits, splitCall.train_ratio)
               cut2 == IntTimes(NumVisits, splitCall.train_ratio + splitCall.val_ratio)
           IN  /\ Cardinality(VisitsIn(out.train_idx)) = cut1
               /\ Cardinality(VisitsIn(out.val_idx)) = cut2 - cut1
               /\ Cardinality(VisitsIn(out.test_idx)) = NumVisits - cut2

\* C6 (amended): for ratios with train_ratio + val_ratio <= 1, the permutation
\* is cut at floor(n*train_ratio) and at floor(n*train_ratio) + floor(n*val_ratio):
\* train gets the first floor(n*train_ratio) visits of the permutation, val
\* the next floor(n*val_ratio), and test the rest.
C6_CutAtSumOfFloors ==
    (splitRun1.called /\ splitRun1.out.ok /\ RatiosWithinOne)
        => LET out  == splitRun1.out
               cut1 == IntTimes(NumVisits, splitCall.train_ratio)
               cut2 == cut1 + IntTimes(NumVisits, splitCall.val_ratio)
           IN  /\ VisitsIn(out.train_idx) = PermutedVisits(0, cut1)
               /\ VisitsIn(out.val_idx) = PermutedVisits(cut1, cut2)
               /\ VisitsIn(out.test_idx) = PermutedVisits(cut2, NumVisits)
               /\ Cardinality(VisitsIn(out.train_idx)) = cut1
               /\ Cardinality(VisitsIn(out.val_idx)) = cut2 - cut1
               /\ Cardinality(VisitsIn(out.test_idx)) = NumVisits - cut2

\* five visits under the default ratios: 3 to train, none to val, 2 to test
\* (floor(3.5 + 0.75) - floor(3.5) would give val one visit)
C6_Witness ==
    /\ splitRun1.called
    /\ DefaultRatios
    /\ NumVisits = 5
    /\ splitRun1.out.ok
    /\ Len(splitRun1.out.train_idx) = 3
    /\ Len(splitRun1.out.val_idx) = 0
    /\ Len(splitRun1.out.test_idx) = 2

\* C7: a second, independent run with the same seed, ratios and metadata
\* returns the same three index lists as the first, whatever the
\* process-wide random state of either process.
C7_SplitDeterministic ==
    splitRun2.called => splitRun2.out = splitRun1.out

\* the two runs happened under different process-wide random states and
\* drew a permutation that is not the identity
C7_Witness ==
    /\ splitRun2.called
    /\ splitRun2.process # splitRun1.process
    /\ splitRun2.seed = splitRun1.seed
    /\ NumVisits = 3
    /\ splitRun2.out.ok
    /\ splitRun2.out.test_idx = <<1>>
    /\ splitRun1.out.test_idx = <<1>>

\* C12 (Scenario A): 10 retained sessions of one site, defense off, 10
\* distinct visit ids, ratios 0.70/0.15/0.15: for every seed the split gives
\* 7 visit identities to train, 1 to val and 2 to test, and each of the 10
\* rows is in exactly one of the three index lists.
C12_ScenarioA ==
    (splitRun1.called /\ DefaultRatios /\ splitCall.metadata = OneSiteCorpus(10))
        => LET out == splitRun1.out
               all == out.train_idx \o out.val_idx \o out.test_idx
           IN  /\ out.ok
               /\ Cardinality(VisitsIn(out.train_idx)) = 7
               /\ Cardinality(VisitsIn(out.val_idx)) = 1
               /\ Cardinality(VisitsIn(out.test_idx)) = 2
               /\ Len(all) = 10
               /\ Range(all) = 1..10

\* Scenario A was split with the largest seed, and the permutation moved
\* the first session out of train
C12_Witness ==
    /\ splitRun1.called
    /\ DefaultRatios
    /\ splitCall.metadata = OneSiteCorpus(10)
    /\ splitRun1.seed = MaxSeed
    /\ splitRun1.out.ok
    /\ Len(splitRun1.out.train_idx) = 7
    /\ Len(splitRun1.out.val_idx) = 1
    /\ Len(splitRun1.out.test_idx) = 2
    /\ 1 \notin Range(splitRun1.out.train_idx)

\* how often row r occurs in an index list
Occurrences(idx, r) == Cardinality({k \in 1..Len(idx) : idx[k] = r})

\* C26: for any non-empty metadata list and any ratios with train_ratio >= 0,
\* val_ratio >= 0 and train_ratio + val_ratio <= 1, whether or not they sum
\* to 1 with test_ratio, every row index occurs exactly once in exactly one
\* of train_idx, val_idx, test_idx; test gets every visit that train and val
\* did not take, and the result does not depend on test_ratio.
C26_SplitIsPartition ==
    (splitRun1.called /\ RatiosWithinOne /\ Len(splitCall.metadata) >= 1)
        => LET out == splitRun1.out
               all == out.train_idx \o out.val_idx \o out.test_idx
           IN  /\ out.ok
               /\ \A r \in 1..Len(splitCall.metadata) : Occurrences(all, r) = 1
               /\ Range(all) = 1..Len(splitCall.metadata)
               /\ VisitsIn(out.test_idx) =
                     Range(UniqueVisits(splitCall.metadata))
                        \ (VisitsIn(out.train_idx) \cup VisitsIn(out.val_idx))
               /\ out = split_no_leakage(<<>>, splitCall.metadata, splitCall.train_ratio,
                                          splitCall.val_ratio,
                                          IF splitCall.test_ratio = 0 THEN 100 ELSE 0,
                                          splitRun1.seed)

\* ratios 0.5 / 0.25 / 0: of four visits, two went to train, one to val and
\* the last one to test although test_ratio is 0
C26_Witness ==
    /\ splitRun1.called
    /\ splitCall.train_ratio = 50
    /\ splitCall.val_ratio = 25
    /\ splitCall.test_ratio = 0
    /\ NumVisits = 4
    /\ splitRun1.out.ok
    /\ Len(splitRun1.out.train_idx) = 2
    /\ Len(splitRun1.out.val_idx) = 1
    /\ Len(splitRun1.out.test_idx) = 1

(***************************************************************************)
(* Properties of the balancer (SpecBalance)                                *)
(***************************************************************************)
\* the number of rows of a metadata list in group g
GroupCount(meta, g) ==
    Cardinality({j \in 1..Len(meta) : GroupOf(meta[j]) = g})

GroupsOf(meta) == {GroupOf(meta[j]) : j \in 1..Len(meta)}

\* C5: for any non-empty retained set, after enforce_balance every
\* (site_id, defense_on) group that was present has the same number of
\* samples, and that number is the smallest group size before balancing.
C5_BalancedToSmallestGroup ==
    (balanceResult.called /\ Len(balanceCall.metadata) > 0)
        => LET before == balanceCall.metadata
               after  == balanceResult.out.metadata
           IN  /\ GroupsOf(after) = GroupsOf(before)
               /\ \A g \in GroupsOf(before) :
                     /\ GroupCount(after, g) <= GroupCount(before, g)
                     /\ \E h \in GroupsOf(before) : GroupCount(after, g) = GroupCount(before, h)
                     /\ \A h \in GroupsOf(before) : GroupCount(after, g) <= GroupCount(before, h)
               /\ Len(balanceResult.out.vectors) = Len(after)

\* a group of two and a group of one were balanced to one sample each
C5_Witness ==
    /\ balanceResult.called
    /\ Len(balanceCall.metadata) = 3
    /\ Cardinality(GroupsOf(balanceCall.metadata)) = 2
    /\ Len(balanceResult.out.metadata) = 2
    /\ Cardinality(GroupsOf(balanceResult.out.metadata)) = 2

\* C13: when the smallest group size the balancer computes is 0 (line 96: no
\* group at all), enforce_balance returns the vectors and the metadata it
\* was given, unchanged, and raises nothing.
C13_DegenerateBalanceIsNoOp ==
    (balanceResult.called /\ min_per_group_of(balanceCall.metadata) = 0)
        => balanceResult.out = [vectors  |-> balanceCall.vectors,
                                metadata |-> balanceCall.metadata]

\* the balancer was called on an input without any group
C13_Witness ==
    /\ balanceResult.called
    /\ GroupsOf(balanceCall.metadata) = {}
    /\ min_per_group_of(balanceCall.metadata) = 0
    /\ balanceResult.out.metadata = balanceCall.metadata
    /\ balanceResult.out.vectors = balanceCall.vectors

\* the input position of the k-th output sample (vector j is the token <<j>>)
KeptPosition(k) == balanceResult.out.vectors[k][1]

\* how many rows of group g the input has at positions 1..j
RankInGroup(j) ==
    Cardinality({h \in 1..j : GroupOf(balanceCall.metadata[h]) = GroupOf(balanceCall.metadata[j])})

SmallestGroup ==
    LET before == balanceCall.metadata
    IN  CHOOSE c \in {GroupCount(before, g) : g \in GroupsOf(before)} :
            \A g \in GroupsOf(before) : c <= GroupCount(before, g)

\* C20: with min_count the smallest group size, the output of
\* enforce_balance holds, for every (site_id, defense_on) group, exactly the
\* first min_count samples of that group and no others, and the output as a
\* whole is a subsequence of the input: the kept samples are in their
\* original relative order, across groups too.
C20_StableTruncation ==
    (balanceResult.called /\ Len(balanceCall.metadata) > 0)
        => LET out == balanceResult.out
               n   == Len(out.metadata)
           IN  /\ Len(out.vectors) = n
               /\ \A k \in 1..n : out.metadata[k] = balanceCall.metadata[KeptPosition(k)]
               /\ \A k \in 1..(n - 1) : KeptPosition(k) < KeptPosition(k + 1)
               /\ {KeptPosition(k) : k \in 1..n} =
                     {j \in 1..Len(balanceCall.metadata) : RankInGroup(j) <= SmallestGroup}

\* two groups interleaved in the input, the one that sorts last coming first
\* and having two samples: its second sample was discarded, the order was kept
C20_Witness ==
    /\ balanceResult.called
    /\ Len(balanceCall.metadata) = 3
    /\ GroupOf(balanceCall.metadata[1]) = <<"site_02", FALSE>>
    /\ GroupOf(balanceCall.metadata[2]) = <<"site_01", FALSE>>
    /\ GroupOf(balanceCall.metadata[3]) = <<"site_02", FALSE>>
    /\ balanceResult.out.vectors = <<<<1>>, <<2>>>>

(***************************************************************************)
(* Properties of the build (Spec)                                          *)
(***************************************************************************)
Ended == pc \in {"returned", "raised"}

\* the loop of build_features_and_metadata went through the whole manifest
LoopCompleted == parsed_dir.manifest.present /\ i = Len(ManifestRows)

\* the artifacts that can be seen in the output directory
Visible == {a \in Artifacts : output_dir.files[a].present}

AllWritten ==
    \A a \in Artifacts : output_dir.files[a].present /\ output_dir.files[a].complete

\* C2: whenever at least one session of the manifest survives loading and
\* quality filtering, the build exits with status 0 and has written all
\* seven artifacts (runs ended by a failing disk write are left aside).
C2_SurvivorsBuildSucceeds ==
    (Ended /\ LoopCompleted /\ Len(vectors) >= 1 /\ error # "OSError")
        => (exit_status = "exit 0" /\ AllWritten)

\* C3: a session whose file is absent, unreadable, empty or malformed is
\* skipped and nothing else: the loop still goes through every remaining
\* manifest row, so no build ends before the last row has been processed.
C3_SessionFailuresIsolated ==
    (Ended /\ parsed_dir.manifest.present) => i = Len(ManifestRows)

\* C4: the final writes are atomic: in every reachable state the output
\* directory shows either none or all of the run's seven artifacts, complete.
C4_WritesAllOrNothing ==
    Visible = {} \/ AllWritten

\* the file exists, is not empty and has the three required columns
UsableFile(file) ==
    /\ file.kind = "table"
    /\ Len(file.rows) >= 1
    /\ {"timestamp", "size", "direction"} \subseteq file.columns

\* a manifest row whose session is loaded and passes the quality filter
Survives(row) ==
    /\ row.file.kind = "table"
    /\ RequiredColumns \subseteq row.file.columns
    /\ Len(row.file.rows) >= 1
    /\ Len(row.file.rows) >= args.min_packets

\* a manifest row that is skipped: no file, no usable table, or too short
Skipped(row) ==
    \/ row.file.kind = "absent"
    \/ /\ row.file.kind = "table"
       /\ ~Survives(row)

NoSurvivor == \A k \in 1..Len(ManifestRows) : ~Survives(ManifestRows[k])

\* the file of manifest row k
FileOfRow(k) == ManifestRows[k].file

\* C15: a loaded session is retained if and only if the number of records
\* loaded from its file is >= min_packets: exactly min_packets records are
\* retained, min_packets - 1 are dropped, and the packet_count column of the
\* manifest plays no part.  Of the rows the loop has gone through, the
\* dropped ones are those with no loaded session or too short a one, and the
\* retained ones appear in metadata in manifest order.
C15_RetainedIffEnoughRecords ==
    parsed_dir.manifest.present =>
        LET Kept(k) == UsableFile(FileOfRow(k)) /\ Len(FileOfRow(k).rows) >= args.min_packets
            kept    == SelectSeq([k \in 1..i |-> k], Kept)
        IN  /\ dropped = SelectSeq([k \in 1..i |-> k], LAMBDA k : ~Kept(k))
            /\ (pc = "loop" =>
                   /\ Len(metadata) = Len(kept)
                   /\ \A k \in 1..Len(kept) :
                         /\ metadata[k].site_id = ManifestRows[kept[k]].site_id
                         /\ metadata[k].visit_id = ManifestRows[kept[k]].visit_id
                         /\ metadata[k].defense_on = ManifestRows[kept[k]].defense_on)

\* the loop dropped a session of min_packets - 1 records that the manifest
\* counts as 50 packets, and retained one of exactly min_packets records
C15_Witness ==
    /\ pc = "loop"
    /\ i = 3
    /\ FileOfRow(1).kind = "table"
    /\ Len(FileOfRow(1).rows) = args.min_packets - 1
    /\ ManifestRows[1].packet_count = 50
    /\ FileOfRow(3).kind = "table"
    /\ Len(FileOfRow(3).rows) = args.min_packets
    /\ dropped = <<1>>
    /\ Len(vectors) = 2
    /\ metadata[2].visit_id = ManifestRows[3].visit_id

RowsOf(name) == output_dir.files[name].rows

\* the manifest row a metadata record was made from
ManifestRowOf(m) ==
    CHOOSE k \in 1..Len(ManifestRows) :
        /\ ManifestRows[k].site_id = m.site_id
        /\ ManifestRows[k].visit_id = m.visit_id
        /\ ManifestRows[k].defense_on = m.defense_on

\* C16: on a successful build the overhead table is the retained set handed
\* to the splitter, one row per session with the packet_count and
\* total_bytes of its manifest row, whatever split the session went to; it
\* has as many rows as the train, val and test matrices together, and every
\* row of it is in exactly one of the three metadata tables.
C16_OverheadOneRowPerRetained ==
    (pc = "returned" /\ exit_status = "exit 0")
        => LET overhead == RowsOf("overhead_per_session.csv")
               splits   == RowsOf("metadata_train.csv") \o RowsOf("metadata_val.csv")
                               \o RowsOf("metadata_test.csv")
           IN  /\ overhead = metadata
               /\ Len(overhead) = Len(RowsOf("X_train.npy")) + Len(RowsOf("X_val.npy"))
                                      + Len(RowsOf("X_test.npy"))
               /\ Len(splits) = Len(overhead)
               /\ Range(splits) = Range(overhead)
               /\ Cardinality(Range(overhead)) = Len(overhead)
               /\ \A k \in 1..Len(overhead) :
                     /\ overhead[k].packet_count = ManifestRows[ManifestRowOf(overhead[k])].packet_count
                     /\ overhead[k].total_bytes = ManifestRows[ManifestRowOf(overhead[k])].total_bytes

\* a build of eight retained sessions wrote an overhead table of eight rows,
\* two of them about sessions of the test split
C16_Witness ==
    /\ pc = "returned"
    /\ exit_status = "exit 0"
    /\ Len(RowsOf("overhead_per_session.csv")) = 8
    /\ Len(RowsOf("X_train.npy")) = 5
    /\ Len(RowsOf("X_val.npy")) = 1
    /\ Len(RowsOf("X_test.npy")) = 2
    /\ dropped # <<>>

\* the feature vector of the session of manifest row k
VectorOfRow(k) ==
    session_to_vector(FileOfRow(k).rows, args.max_packets, TRUE, TRUE, TRUE).vec

\* row by row, vecs holds the vectors of the sessions meta describes
Aligned(vecs, meta) ==
    /\ Len(vecs) = Len(meta)
    /\ \A k \in 1..Len(meta) : vecs[k] = VectorOfRow(ManifestRowOf(meta[k]))

FileAligned(matrix, table) ==
    (output_dir.files[matrix].present /\ output_dir.files[matrix].complete
        /\ output_dir.files[table].present /\ output_dir.files[table].complete)
        => Aligned(RowsOf(matrix), RowsOf(table))

\* C17: vectors and metadata stay positionally aligned through every stage:
\* the k-th metadata record describes the session the k-th feature vector
\* was extracted from after every row of build_features_and_metadata, after
\* enforce_balance, in each split as split_no_leakage selected it, and in
\* each pair of matrix and metadata table the build has written when it ends.
C17_RowsAligned ==
    /\ pc \in {"loop", "split"} => Aligned(vectors, metadata)
    /\ pc = "makedirs" =>
          /\ Aligned(Select(vectors, split.train_idx), Select(metadata, split.train_idx))
          /\ Aligned(Select(vectors, split.val_idx), Select(metadata, split.val_idx))
          /\ Aligned(Select(vectors, split.test_idx), Select(metadata, split.test_idx))
    /\ Ended =>
          /\ FileAligned("X_train.npy", "metadata_train.csv")
          /\ FileAligned("X_val.npy", "metadata_val.csv")
          /\ FileAligned("X_test.npy", "metadata_test.csv")

\* a build that dropped its first session, balanced, and wrote a test matrix
\* whose first row is the vector of a session further down the manifest
C17_Witness ==
    /\ pc = "returned"
    /\ exit_status = "exit 0"
    /\ ~args.no_balance
    /\ dropped = <<1>>
    /\ Len(RowsOf("X_test.npy")) = 2
    /\ ManifestRowOf(RowsOf("metadata_test.csv")[1]) > 2
    /\ RowsOf("X_test.npy")[1] = VectorOfRow(ManifestRowOf(RowsOf("metadata_test.csv")[1]))
    /\ RowsOf("X_test.npy")[1] # RowsOf("X_train.npy")[1]

\* C19: a second run of the build on the same manifest, session files,
\* options and seed, over the output directory the first run wrote, ends
\* successfully with the same seven artifacts: the same three matrices, the
\* same three metadata tables and the same overhead table, row for row.
C19_RerunIdentical ==
    (firstRun.called /\ Ended /\ error # "OSError")
        => /\ exit_status = "exit 0"
           /\ split = firstRun.split
           /\ output_dir = firstRun.output_dir

\* the second run has ended, in another process, after a split that is not
\* in manifest order
C19_Witness ==
    /\ firstRun.called
    /\ pc = "returned"
    /\ exit_status = "exit 0"
    /\ processRandom = 1
    /\ AllWritten
    /\ split.test_idx # <<Len(metadata) - 1, Len(metadata)>>
    /\ RowsOf("X_test.npy") = firstRun.output_dir.files["X_test.npy"].rows

\* the stages after the barrier: balance, split, assemble and write
AfterBarrier == pc \in {"balance", "split", "makedirs", "stack", "write"}

SplitComputed ==
    LET r == split_no_leakage(vectors, metadata, TRAIN_RATIO, VAL_RATIO, TEST_RATIO, args.seed)
    IN  r.ok /\ split = [train_idx |-> r.train_idx, val_idx |-> r.val_idx,
                          test_idx |-> r.test_idx]

\* C25: in every run, balancing, splitting and assembling start only after
\* every manifest row has been either extracted or dropped; no per-session
\* load/filter/extract step happens once the balance step has begun (the
\* loop position and the dropped list no longer change), the retained set
\* changes only by the balance step itself, and no output artifact is
\* written before the split is computed.
C25_BarrierOrdering ==
    /\ [](AfterBarrier => i = Len(ManifestRows))
    /\ [][/\ AfterBarrier => (i' = i /\ dropped' = dropped)
          /\ (AfterBarrier /\ pc # "balance") => (vectors' = vectors /\ metadata' = metadata)
          /\ (i' # i /\ pc # "returned") => (pc = "loop" /\ pc' = "loop" /\ i' = i + 1)
          /\ output_dir.files' # output_dir.files => (pc = "write" /\ SplitComputed)]_vars

\* a build that dropped a session is writing its artifacts, every manifest
\* row behind it
C25_Witness ==
    /\ pc = "write"
    /\ written # <<>>
    /\ i = Len(ManifestRows)
    /\ i >= 8
    /\ dropped # <<>>
    /\ SplitComputed

\* the manifest row of identity (site_id, visit_id, defense_on) of record m
\* is among the dropped ones
IsDropped(m) == ManifestRowOf(m) \in Range(dropped)

\* C27: each manifest row ends as exactly one of retained or dropped, so
\* that, once the run is past the loop or has ended, every row has been
\* gone through, the dropped list names each dropped row once, and retained
\* + dropped = manifest rows when the retained set is handed on; a dropped
\* session is in no split, no metadata table and not in the overhead table.
C27_PermanentExclusion ==
    ((Ended \/ AfterBarrier) /\ parsed_dir.manifest.present /\ Len(ManifestRows) > 0)
        => /\ i = Len(ManifestRows)
           /\ Cardinality(Range(dropped)) = Len(dropped)
           /\ pc = "balance" => Len(vectors) + Len(dropped) = Len(ManifestRows)
           /\ \A k \in 1..Len(metadata) : ~IsDropped(metadata[k])
           /\ \A a \in {"metadata_train.csv", "metadata_val.csv", "metadata_test.csv",
                         "overhead_per_session.csv"} :
                 (output_dir.files[a].present /\ output_dir.files[a].complete)
                    => \A k \in 1..Len(RowsOf(a)) : ~IsDropped(RowsOf(a)[k])

\* C28: when the build returns non-zero because the manifest is missing, the
\* manifest is empty or no session survives filtering, it returns before
\* creating the output directory and writes none of the artifacts: up to
\* that return no step changes the output directory, so it ends as one of
\* the directories a run can start from, with whatever it held before.
C28_NoOutputOnFailure ==
    /\ []((pc = "returned" /\ exit_status = "exit 1")
            => (written = <<>> /\ output_dir \in OutputDirsBefore))
    /\ [][(pc \in {"start", "loop"} /\ ~firstRun.called) => output_dir' = output_dir]_vars

\* the only session of the manifest was too short: the build returned 1 and
\* the older dataset is still in the output directory
C28_Witness ==
    /\ pc = "returned"
    /\ exit_status = "exit 1"
    /\ Len(ManifestRows) = 1
    /\ dropped = <<1>>
    /\ output_dir.files = [a \in Artifacts |-> OldContent(a)]

\* C11: the build ends with a non-zero status and writes nothing when the
\* manifest is absent, when it has no rows, and when no session survives
\* loading and quality filtering; in the first two cases, and in the third
\* when every session is skipped, it does so by returning 1 after its
\* diagnostic, not through an exception.
C11_FatalConditionsExitNonZero ==
    Ended =>
        /\ (~parsed_dir.manifest.present \/ Len(ManifestRows) = 0 \/ NoSurvivor)
              => (exit_status = "exit 1" /\ Visible = {} /\ ~output_dir.exists)
        /\ (~parsed_dir.manifest.present \/ Len(ManifestRows) = 0
               \/ \A k \in 1..Len(ManifestRows) : Skipped(ManifestRows[k]))
              => (pc = "returned" /\ error = "none")

\* a manifest whose only session has fewer records than the threshold ended
\* the build with status 1 at line 178
C11_Witness ==
    /\ pc = "returned"
    /\ exit_status = "exit 1"
    /\ Len(ManifestRows) = 1
    /\ ManifestRows[1].file.kind = "table"
    /\ Len(ManifestRows[1].file.rows) = args.min_packets - 1
    /\ dropped = <<1>>

(***************************************************************************)
(* Properties of the session loader (SpecLoad)                             *)
(***************************************************************************)
\* C14: load_parsed_session returns the no-result, and raises nothing, when
\* the file is absent, unreadable, empty or lacks one of the columns
\* timestamp, size, direction; it returns the table exactly when the file
\* exists, is non-empty and has the three columns.
C14_LoaderReturnsNoResult ==
    loadResult.called =>
        /\ loadResult.out.ok
        /\ IF UsableFile(loadCall.file)
           THEN loadResult.out.value = Loaded(loadCall.file.rows)
           ELSE loadResult.out.value = NoSession

(***************************************************************************)
(* Properties of the parser and of the rebuild (SpecRebuild)               *)
(***************************************************************************)
\* the run has ended, by a return or by an exception
RebuildEnded == rebuildRun.pc \in {"returned", "raised"}

\* the parse step of this run produced no session
NoSessionParsed == Len(parseRun.manifest_rows) = 0

\* C29: in every run of rebuild_dataset.main, also over a parsed directory
\* an earlier run has used, if the parse step of this run produced no
\* session the run returns a non-zero status and the build is not executed;
\* otherwise the build runs on the directory the parse step wrote to and its
\* exit code is returned.
C29_StopsAfterEmptyParse ==
    (rebuildRun.called /\ rebuildRun.tool = "rebuild_dataset" /\ RebuildEnded) =>
        IF NoSessionParsed
        THEN /\ rebuildRun.exit_status # "exit 0"
             /\ ~rebuildRun.build.called
        ELSE /\ rebuildRun.build.called
             /\ rebuildRun.build.manifest.rows = parseRun.manifest_rows
             /\ rebuildRun.exit_status = rebuildRun.build.code

\* PCAP number k of the walk is one the parser raises on or reads no packet from
ParseFails(k) ==
    \/ pcap_root[k].content.kind = "corrupt"
    \/ pcap_root[k].content.kind = "capture" /\ Len(pcap_root[k].content.packets) = 0

\* PCAP number k of the walk is a file with at least one packet
ParseSucceeds(k) ==
    pcap_root[k].content.kind = "capture" /\ Len(pcap_root[k].content.packets) > 0

RowsFrom(k) ==
    {j \in 1..Len(parseRun.manifest_rows) : parseRun.manifest_rows[j].pcap_path = k}

WritesFrom(k) ==
    {j \in 1..Len(parseRun.written) : parseRun.written[j].pcap_path = k}

\* the session files this run has written
SessionFilesWritten == {parseRun.written[j].parsed_path : j \in 1..Len(parseRun.written)}

RowsOfFile(path) ==
    {j \in 1..Len(parseRun.manifest_rows) : parseRun.manifest_rows[j].parsed_path = path}

\* C30: a PCAP whose parsing raises or yields no packet produces no session
\* file and no manifest row, and the PCAPs after it are still processed; the
\* manifest a run writes has exactly one row per session file the run wrote;
\* no manifest is written when no session was parsed; parse_pcaps exits 0,
\* also over a root that holds nothing.
C30_ParseIsolatesFailures ==
    /\ [](rebuildRun.called =>
            /\ \A k \in 1..parseRun.pos :
                  ParseFails(k) => (RowsFrom(k) = {} /\ WritesFrom(k) = {})
            /\ rebuildRun.pc # "parsing" =>
                  /\ parseRun.pos = Len(pcap_root)
                  /\ \A k \in 1..Len(pcap_root) : ParseSucceeds(k) => RowsFrom(k) # {}
                  /\ ~NoSessionParsed =>
                        /\ parsedTree.manifest = [present |-> TRUE,
                                                  rows    |-> parseRun.manifest_rows]
                        /\ \A p \in SessionFilesWritten : Cardinality(RowsOfFile(p)) = 1
                        /\ \A j \in 1..Len(parseRun.manifest_rows) :
                              parseRun.manifest_rows[j].parsed_path \in SessionFilesWritten
            /\ (rebuildRun.tool = "parse_pcaps" /\ RebuildEnded) =>
                  (rebuildRun.pc = "returned" /\ rebuildRun.exit_status = "exit 0"))
    /\ [][(rebuildRun.called /\ NoSessionParsed) =>
              parsedTree'.manifest = parsedTree.manifest]_vars

====
